---- MODULE Spec2Model ----
(***************************************************************************)
(* Madj2kSlideMenu (fe-frontend-kit): the slide menu controller as a state *)
(* machine over the DOM elements it reads and writes.                      *)
(*                                                                         *)
(* One toggle element, its menu container (when aria-controls resolves),   *)
(* the cards of the rendered markup, document.body and the no-scroll       *)
(* helper.  Every handler is a function from a snapshot of that state to   *)
(* the snapshot after the handler; an uncaught exception stops the handler *)
(* where it is raised and is recorded in call.threw.                       *)
(*                                                                         *)
(* Timers created by setTimeout(..., animationDuration) all have the same  *)
(* delay, so they fire in the order of their creation: a FIFO queue.       *)
(* requestAnimationFrame callbacks keep, per element, the last target they *)
(* will write (callbacks of one frame run in order of registration).       *)
(*                                                                         *)
(* Markup assumption: rendered markup (built from the templates or         *)
(* pre-rendered) has the structure of the readme: one menu wrap and the    *)
(* cards nested in their parent card.                                      *)
(***************************************************************************)
EXTENDS Integers, Sequences, FiniteSets, TLC

\* ---------------------------------------------------------------- bounds
NumCards == 3        \* cards of the menu: a chain, card c nested in card c-1
MaxScroll == 2       \* scroll offsets 0..MaxScroll, in half pixels
MaxTimers == 2       \* pending card-navigation timers the model follows
MaxItems == 4        \* items of a menuItemsJson tree handed to buildHtml
NumPulldowns == 2    \* pulldown menus on the page
MaxDays == 2         \* cookieDays of a banner: 1..MaxDays
MaxInstances == 2    \* Madj2kBanner instances constructed on one page
MaxSize == 2         \* window height and width: 0..MaxSize
MaxSlides == 3       \* slides of a fade slider: 0..MaxSlides
NumSliders == 2      \* fade sliders on the page, each with its container
NumToggles == 3      \* toggles of a Madj2kToggledOverlay, and targets of the page
NumFlyouts == 2      \* Madj2kFlyoutMenu instances on one page

Cards == 1..NumCards
Pulldowns == 1..NumPulldowns
ScrollOffsets == 0..MaxScroll

\* ------------------------------------------------------- class names
openStatusClass == "open"
openStatusBodyClass == "slide-open"
openStatusBodyClassOverflow == "slide-open-overflow"
openCardStatusClass == "show"
activeStatusClass == "active"
animationOpenStatusClass == "opening"
animationCloseStatusClass == "closing"

NoException == "none"
MenuIsNull == "TypeError: this.settings.$menu is null"
MenuWrapIsNull == "TypeError: this.settings.$menuWrap is null"
EmptyToken == "SyntaxError: classList.add('')"

VARIABLES
  cfg,        \* options and page markup the instance was constructed on
  page,       \* window/document: overflowing, scrollY, innerHeight, refBottom
  settings,   \* this.settings: isLoaded, $cards, $activeCards, $openCard, $menuWrap
  menuEl,     \* the menu container: classes, style.top, innerHTML
  toggleEl,   \* the toggle (this.$element): classes, aria-expanded
  bodyEl,     \* document.body: classes
  helperEl,   \* .no-scroll-helper / -inner: data-scroll-top and style.top
              \* (<<>> when not set, <<v>> when set to v), styled
  wrapEl,     \* the menu wrap: style.top, value a pending frame will write
  cardEls,    \* the cards: classes, style.left/height, tabindex, pending frame
  timers,     \* pending animationDuration timers, oldest first
  call,       \* outcome of the last handler: events, exception, return values
  widgets,    \* the other menu widgets of the page (a flyout menu, a pulldown
              \* menu) and whether an input element has the focus
  hist,       \* history (not program state): progress of an undisturbed
              \* open/close/open round trip, class sets after its first open
  build,      \* a menuItemsJson tree and the HTML buildHtml makes of it
  banner,     \* Madj2kBanner: the cookies, the banner element, its listeners
              \* and timers
  betterResize, \* Madj2kBetterResizeEvent: its fields, its timers, the clock
  slider,     \* Madj2kSimpleFadeSlider: the slides and the current index
  overlay,    \* Madj2kToggledOverlay: the toggles and their targets
  scrolling,  \* Madj2kScrolling: the scroll position and the body classes
  flyouts     \* several Madj2kFlyoutMenu instances on one page

vars == <<cfg, page, settings, menuEl, toggleEl, bodyEl, helperEl, wrapEl,
          cardEls, timers, call, widgets, hist, build, banner, betterResize, slider,
          overlay, scrolling, flyouts>>

\* the components of the kit that share no state with the menus
others == <<banner, betterResize, slider, overlay, scrolling, flyouts>>

\* The state as one record, the argument and result of every handler.
State ==
  [cfg |-> cfg, page |-> page, settings |-> settings, menuEl |-> menuEl,
   toggleEl |-> toggleEl, bodyEl |-> bodyEl, helperEl |-> helperEl,
   wrapEl |-> wrapEl, cardEls |-> cardEls, timers |-> timers, call |-> call,
   widgets |-> widgets]

Commit(s) ==
  /\ cfg' = s.cfg
  /\ page' = s.page
  /\ settings' = s.settings
  /\ menuEl' = s.menuEl
  /\ toggleEl' = s.toggleEl
  /\ bodyEl' = s.bodyEl
  /\ helperEl' = s.helperEl
  /\ wrapEl' = s.wrapEl
  /\ cardEls' = s.cardEls
  /\ timers' = s.timers
  /\ call' = s.call
  /\ widgets' = s.widgets
  /\ build' = build
  /\ UNCHANGED others

Commit0(s) ==
  /\ cfg = s.cfg
  /\ page = s.page
  /\ settings = s.settings
  /\ menuEl = s.menuEl
  /\ toggleEl = s.toggleEl
  /\ bodyEl = s.bodyEl
  /\ helperEl = s.helperEl
  /\ wrapEl = s.wrapEl
  /\ cardEls = s.cardEls
  /\ timers = s.timers
  /\ call = s.call
  /\ widgets = s.widgets

\* A fresh handler invocation: nothing dispatched, thrown or returned yet.
NewCall ==
  [events |-> <<>>, threw |-> NoException, warned |-> FALSE,
   retLoad |-> "n/a", retOpen |-> "n/a", retClose |-> "n/a"]

Begin(s) == [s EXCEPT !.call = NewCall]

Threw(s) == s.call.threw # NoException

Throw(s, e) == [s EXCEPT !.call.threw = e]

\* Run F on s unless an exception is already propagating.
Then(s, F(_)) == IF Threw(s) THEN s ELSE F(s)

dispatchEvent(s, name) == [s EXCEPT !.call.events = Append(@, name)]

\* ------------------------------------------------------------ the page
\* The document is taller than the window exactly in the short window.
overflowing(s) == s.page.innerHeight = "short"

\* Number.parseInt of a data-scroll-top attribute: offsets are counted in
\* half pixels, parseInt drops the fraction (truncation towards zero).
parseInt(v) == IF v >= 0 THEN (v \div 2) * 2 ELSE -(((-v) \div 2) * 2)

\* Cards in document order; card c is nested in card c - 1.
parentCard(c) == c - 1

RECURSIVE ancestors(_)
ancestors(c) == IF c <= 1 THEN {} ELSE {parentCard(c)} \cup ancestors(parentCard(c))

\* querySelectorAll on a card also finds the elements of the cards nested in it.
descendantsOrSelf(c) == {d \in Cards : d = c \/ c \in ancestors(d)}

RECURSIVE SeqOfSet(_, _)
SeqOfSet(S, n) ==
  IF n > NumCards THEN <<>>
  ELSE (IF n \in S THEN <<n>> ELSE <<>>) \o SeqOfSet(S, n + 1)

\* ------------------------------------------------------------ loadMenu
bindEvents(s) == [s EXCEPT !.settings.binds = @ + 1]

\* lines 671-691: the container's HTML is rebuilt only with items and all templates
buildMarkup(s) ==
  IF s.cfg.hasItems /\ s.cfg.templatesOk
  THEN [s EXCEPT !.menuEl.html = "built", !.menuEl.builds = @ + 1]
  ELSE s

\* lines 693-707: cache wrap and cards, mark the first card active
cacheCards(s) ==
  LET present == s.menuEl.html # "empty"
      found == IF present THEN Cards ELSE {}
      marked == [c \in Cards |->
                   IF present /\ c = 1
                   THEN [s.cardEls[c] EXCEPT !.classes = @ \cup {activeStatusClass}]
                   ELSE s.cardEls[c]]
  IN [s EXCEPT !.settings.menuWrap = present,
               !.settings.cards = found,
               !.cardEls = marked,
               !.settings.activeCards =
                 SeqOfSet({c \in found : activeStatusClass \in marked[c].classes}, 1)]

\* faulty variant: the loaded flag is not looked at
loadMenu_everyTime(s) ==
  IF ~s.cfg.menuExists
  THEN [s EXCEPT !.call.warned = TRUE, !.call.retLoad = "false"]
  ELSE LET s1 == cacheCards(buildMarkup(s))
       IN IF ~s1.settings.menuWrap
          THEN Throw(s1, MenuWrapIsNull)
          ELSE LET s2 == [s1 EXCEPT !.wrapEl.top = "-100%", !.settings.isLoaded = TRUE]
               IN [bindEvents(s2) EXCEPT !.call.retLoad = "true"]

\* lines 660-714
loadMenu(s) ==
  IF s.settings.isLoaded THEN [s EXCEPT !.call.retLoad = "true"]
  ELSE IF ~s.cfg.menuExists
  THEN [s EXCEPT !.call.warned = TRUE, !.call.retLoad = "false"]
  ELSE LET s1 == cacheCards(buildMarkup(s))
       IN IF ~s1.settings.menuWrap
          THEN Throw(s1, MenuWrapIsNull)
          ELSE LET s2 == [s1 EXCEPT !.wrapEl.top = "-100%", !.settings.isLoaded = TRUE]
               IN [bindEvents(s2) EXCEPT !.call.retLoad = "true"]

\* ------------------------------------------------------------ buildHtml
\* A menuItemsJson tree: items 1..n in document order, parent[i] < i the item
\* holding i in its children (0: top level), sub[i] its hasSubpages flag,
\* linked[i] its isLinked flag.  data.uid of item i is i.
children(tree, p) ==
  SelectSeq([i \in 1..tree.n |-> i], LAMBDA i : tree.parent[i] = p)

\* HTML as a sequence of tokens: the elements a template renders, each with
\* the uid written into its attributes, and the comment delimiters.
Tok(t, u) == [t |-> t, uid |-> u]

Slot(name) == [t |-> name, uid |-> -1]

\* the templates of the readme; a literal comment is "<!--" followed by "-->"
menuWrapTemplate ==
  <<Tok("<div.container>", 0), Tok("<div.card>", 0), Slot("menuItems"),
    Tok("</div>", 0), Tok("</div>", 0)>>

menuItemTemplate ==
  <<Tok("<li.item>", 0),
    Tok("<!--", 0), Tok("-->", 0),
    Slot("ifHasNoChildrenStart"), Tok("<a.link>", 0), Slot("ifHasNoChildrenEnd"),
    Tok("<!--", 0), Tok("-->", 0),
    Slot("ifHasChildrenStart"), Tok("<a.next>", 0), Slot("ifHasChildrenEnd"),
    Slot("submenu"), Tok("</li>", 0)>>

subMenuWrapTemplate ==
  <<Tok("<a.next>", 0), Tok("<div.card>", 0), Tok("<button.back>", 0),
    Tok("<li.headline>", 0),
    Tok("<!--", 0), Tok("-->", 0),
    Slot("ifIsNotLinkedStart"), Tok("<span.headline>", 0), Slot("ifIsNotLinkedEnd"),
    Tok("<!--", 0), Tok("-->", 0),
    Slot("ifIsLinkedStart"), Tok("<a.headline>", 0), Slot("ifIsLinkedEnd"),
    Tok("</li>", 0), Slot("menuItems"), Tok("</div>", 0)>>

SlotNames ==
  {"menuItems", "submenu", "ifHasNoChildrenStart", "ifHasNoChildrenEnd",
   "ifHasChildrenStart", "ifHasChildrenEnd", "ifIsNotLinkedStart",
   "ifIsNotLinkedEnd", "ifIsLinkedStart", "ifIsLinkedEnd"}

\* lines 1320-1351: the markers that shape the markup; a key the marker
\* does not own is replaced by the empty string
getItemMarker(tree, item) ==
  LET start(on) == IF on THEN <<>> ELSE <<Tok("<!--", item)>>
      end(on) == IF on THEN <<>> ELSE <<Tok("-->", item)>>
  IN [uid |-> item,
      slots |-> [k \in SlotNames |->
        CASE k = "ifIsLinkedStart" -> start(tree.linked[item])
          [] k = "ifIsLinkedEnd" -> end(tree.linked[item])
          [] k = "ifIsNotLinkedStart" -> start(~tree.linked[item])
          [] k = "ifIsNotLinkedEnd" -> end(~tree.linked[item])
          [] k = "ifHasChildrenStart" -> start(tree.sub[item])
          [] k = "ifHasChildrenEnd" -> end(tree.sub[item])
          [] k = "ifHasNoChildrenStart" -> start(~tree.sub[item])
          [] k = "ifHasNoChildrenEnd" -> end(~tree.sub[item])
          [] OTHER -> <<>>]]

\* lines 1361-1365: every %key% of the template is replaced, the text put
\* in is not searched again
RECURSIVE replaceHtml(_, _)
replaceHtml(html, data) ==
  IF html = <<>> THEN <<>>
  ELSE (IF Head(html).uid = -1 THEN data.slots[Head(html).t]
        ELSE <<Tok(Head(html).t, data.uid)>>) \o replaceHtml(Tail(html), data)

\* line 1309: html.replace(/<!--[\s\S]*?-->/g, ''): a comment runs from a
\* "<!--" to the first "-->" after it; a "<!--" that is never closed stays
RECURSIVE removeComments(_)
removeComments(html) ==
  IF html = <<>> THEN <<>>
  ELSE IF Head(html).t = "<!--" /\ \E j \in 2..Len(html) : html[j].t = "-->"
  THEN LET j == CHOOSE j \in 2..Len(html) :
                  /\ html[j].t = "-->"
                  /\ \A k \in 2..(j - 1) : html[k].t # "-->"
       IN removeComments(SubSeq(html, j + 1, Len(html)))
  ELSE <<Head(html)>> \o removeComments(Tail(html))

RECURSIVE buildHtml(_, _, _)
RECURSIVE renderItems(_, _)

\* faulty variant: children are rendered only below the first item of a level
renderItems_firstBranchOnly(tree, items) ==
  IF items = <<>> THEN <<>>
  ELSE LET item == Head(items)
           kids == children(tree, item)
           marker == getItemMarker(tree, item)
           withSub == IF tree.sub[item] /\ kids # <<>> /\ item = 1
                      THEN [marker EXCEPT !.slots["submenu"] = buildHtml(tree, kids, item)]
                      ELSE marker
       IN replaceHtml(menuItemTemplate, withSub) \o renderItems(tree, Tail(items))

\* lines 1289-1295: the loop over the items of one level
renderItems(tree, items) ==
  IF items = <<>> THEN <<>>
  ELSE LET item == Head(items)
           kids == children(tree, item)
           marker == getItemMarker(tree, item)
           withSub == IF tree.sub[item] /\ kids # <<>>
                      THEN [marker EXCEPT !.slots["submenu"] = buildHtml(tree, kids, item)]
                      ELSE marker
       IN replaceHtml(menuItemTemplate, withSub) \o renderItems(tree, Tail(items))

\* lines 1285-1310; parentItem 0 is null
buildHtml(tree, items, parentItem) ==
  LET html == renderItems(tree, items)
      wrapped ==
        IF parentItem # 0
        THEN replaceHtml(subMenuWrapTemplate,
               [getItemMarker(tree, parentItem) EXCEPT !.slots["menuItems"] = html])
        ELSE replaceHtml(menuWrapTemplate,
               [uid |-> 0,
                slots |-> [k \in SlotNames |-> IF k = "menuItems" THEN html ELSE <<>>]])
  IN removeComments(wrapped)

\* ------------------------------------------------------- scroll locking
\* lines 1231-1235: the class handed to body.classList.add
noScrollClass(s) == IF overflowing(s) THEN openStatusBodyClassOverflow ELSE ""

\* lines 1237: the branch that locks is taken while body lacks slide-open
isUnlocked(s) == openStatusBodyClass \notin s.bodyEl.classes

\* lines 1238-1243 (DOMTokenList.add throws on the empty token)
lockScroll(s) ==
  LET scrollTop == -s.page.scrollY
      s1 == [s EXCEPT !.helperEl.scrollTopAttr = <<scrollTop>>,
                      !.helperEl.styled = TRUE,
                      !.helperEl.innerTop = <<scrollTop>>]
  IN IF noScrollClass(s) = ""
     THEN Throw(s1, EmptyToken)
     ELSE [s1 EXCEPT !.bodyEl.classes = @ \cup {noScrollClass(s)},
                     !.page.scrollY = 0]

\* lines 1245-1249
unlockScroll(s) ==
  LET attr == s.helperEl.scrollTopAttr
      scrollTop == parseInt(IF attr = <<>> THEN 0 ELSE attr[1]) * (-1)
  IN [s EXCEPT !.helperEl.styled = FALSE,
               !.helperEl.innerTop = <<>>,
               !.bodyEl.classes = @ \ {openStatusBodyClassOverflow},
               !.page.scrollY = IF overflowing(s) THEN scrollTop ELSE 0]

toggleNoScroll(s) ==
  IF ~s.cfg.scrollHelper THEN s
  ELSE IF isUnlocked(s) THEN lockScroll(s) ELSE unlockScroll(s)

\* ------------------------------------------------ cards and tab order
disableTabIndexOnAllCards(s) ==
  [s EXCEPT !.cardEls = [c \in Cards |-> [@[c] EXCEPT !.tabindex = "-1"]]]

\* lines 1092-1093: the element's left edge lies inside the window; the
\* elements of a card do while the card and the cards around it sit at left 0
inViewport(s, c) == \A d \in {c} \cup ancestors(c) : s.cardEls[d].left = "0"

\* faulty variant: the position of the elements is not looked at
toggleTabIndexOnOpenCard_anywhere(s) ==
  LET s1 == disableTabIndexOnAllCards(s)
  IN IF openStatusClass \notin s1.toggleEl.classes THEN s1
     ELSE [s1 EXCEPT !.cardEls =
             [c \in Cards |->
                IF c \in descendantsOrSelf(s1.settings.openCard)
                THEN [@[c] EXCEPT !.tabindex = "unset"]
                ELSE @[c]]]

\* lines 1083-1097
toggleTabIndexOnOpenCard(s) ==
  LET s1 == disableTabIndexOnAllCards(s)
  IN IF openStatusClass \notin s1.toggleEl.classes THEN s1
     ELSE [s1 EXCEPT !.cardEls =
             [c \in Cards |->
                IF c \in descendantsOrSelf(s1.settings.openCard) /\ inViewport(s1, c)
                THEN [@[c] EXCEPT !.tabindex = "unset"]
                ELSE @[c]]]

\* lines 1064-1074: aria-expanded of the next-card controls.  The templates
\* render two controls whose aria-controls names card c > 1: the one of the
\* item (controlExpanded), first in document order and the one querySelector
\* finds, and the one in front of the card (wrapControlExpanded).
toggleWaiAriaForOpenCard(s) ==
  [s EXCEPT !.cardEls = [c \in Cards |->
     [@[c] EXCEPT !.controlExpanded =
                    /\ openStatusClass \in s.toggleEl.classes
                    /\ c = s.settings.openCard
                    /\ c > 1,
                  !.wrapControlExpanded = FALSE]]]

\* faulty variant: the other cards keep the show class
setOpenCard_keepsOthers(s, card) ==
  [s EXCEPT !.settings.openCard = card,
            !.cardEls[card].classes = @ \cup {openCardStatusClass}]

\* lines 1010-1016
setOpenCard(s, card) ==
  [s EXCEPT !.settings.openCard = card,
            !.cardEls = [c \in Cards |->
               [@[c] EXCEPT !.classes =
                  IF c = card THEN @ \cup {openCardStatusClass}
                  ELSE IF c \in s.settings.cards THEN @ \ {openCardStatusClass}
                  ELSE @]]]

\* ------------------------------------------------------------- focus
\* The elements that can hold the keyboard focus: the toggle, the links and
\* buttons of the cards, and the rest of the page.  In the markup of the
\* readme a card holds its back button and the next controls of its child
\* card ("head"), then the child card, then the links of its later items
\* ("tail").
Element(c, part) == [card |-> c, part |-> part]

Toggle == Element(0, "toggle")

Page == Element(0, "page")

NoElement == Element(0, "none")

\* a, button, input, textarea, select of the menu in document order
menuElements ==
  [i \in 1..(2 * NumCards) |->
     IF i <= NumCards THEN Element(i, "head")
     ELSE Element(2 * NumCards + 1 - i, "tail")]

\* lines 1039-1044: the first element of the open card (its nested cards
\* included) without a tabindex attribute gets the focus from a timer.
\* Pending focus timers run in their order, the last one decides where the
\* focus ends: one pending target is kept.
focusFirstItemOfOpenCard(s) ==
  LET found == {i \in 1..Len(menuElements) :
                  /\ s.settings.openCard # 0
                  /\ menuElements[i].card \in descendantsOrSelf(s.settings.openCard)
                  /\ s.cardEls[menuElements[i].card].tabindex = "unset"}
  IN IF found = {} THEN s
     ELSE [s EXCEPT !.widgets.focusPending =
             menuElements[CHOOSE i \in found : \A j \in found : i <= j]]

changeOpenCard(s, card) ==
  focusFirstItemOfOpenCard(
    toggleWaiAriaForOpenCard(toggleTabIndexOnOpenCard(setOpenCard(s, card))))

\* lines 1131-1139: the height left below the position reference
resizeCards(s) ==
  [s EXCEPT !.cardEls = [c \in Cards |->
     IF c \in s.settings.cards
     THEN [@[c] EXCEPT !.height = <<s.page.innerHeight, "- rect.bottom">>]
     ELSE @[c]]]

positionMenu(s) == [s EXCEPT !.menuEl.top = "rect.bottom"]

repositionCards(s) ==
  LET open == s.settings.openCard
  IN [s EXCEPT !.cardEls = [c \in Cards |->
       IF c \in s.settings.cards
       THEN [@[c] EXCEPT !.left = IF c = open \/ c \in ancestors(open)
                                  THEN "0" ELSE "100%"]
       ELSE @[c]]]

\* animateElement on the menu wrap / on a card: the start value is written
\* at once, the end value by the next animation frame
animateWrap(s, from, to) == [s EXCEPT !.wrapEl.top = from, !.wrapEl.frame = to]

animateCard(s, c, from, to) ==
  [s EXCEPT !.cardEls[c].left = from, !.cardEls[c].frame = to]

\* --------------------------------------------------------------- close
\* faulty variant: the guard forgets the closing class
closeBlocked_openOnly(s) == openStatusClass \notin s.menuEl.classes

\* lines 842-845
closeBlocked(s) ==
  \/ openStatusClass \notin s.menuEl.classes
  \/ animationCloseStatusClass \in s.menuEl.classes

\* faulty variant: aria-expanded is left for the timer
markClosing_ariaLater(s) ==
  [s EXCEPT !.menuEl.classes = @ \cup {animationCloseStatusClass},
            !.toggleEl.classes = (@ \cup {animationCloseStatusClass}) \ {openStatusClass}]

\* lines 851-854
markClosing(s) ==
  [s EXCEPT !.menuEl.classes = @ \cup {animationCloseStatusClass},
            !.toggleEl.classes = (@ \cup {animationCloseStatusClass}) \ {openStatusClass},
            !.toggleEl.ariaExpanded = "false"]

close(s) ==
  IF ~s.cfg.menuExists THEN Throw(s, MenuIsNull)
  ELSE IF closeBlocked(s) THEN [s EXCEPT !.call.retClose = "false"]
  ELSE LET s1 == markClosing(dispatchEvent(s, "madj2k-slidemenu-closing"))
           s2 == toggleWaiAriaForOpenCard(toggleTabIndexOnOpenCard(s1))
           s3 == animateWrap(s2, "0", "-100%")
       IN [s3 EXCEPT !.timers = Append(@, [kind |-> "closed", card |-> 0]),
                     !.call.retClose = "true"]

\* faulty variant: the closing class stays on the menu element
unmarkClosed_keepsClosing(s) ==
  [s EXCEPT !.menuEl.classes = @ \ {openStatusClass},
            !.toggleEl.classes = @ \ {animationCloseStatusClass}]

\* lines 866-871
unmarkClosed(s) ==
  [s EXCEPT !.menuEl.classes = @ \ {openStatusClass, animationCloseStatusClass},
            !.toggleEl.classes = @ \ {animationCloseStatusClass}]

\* lines 865-875: the timer callback of close()
closeTimer(s) ==
  LET s1 == toggleNoScroll(unmarkClosed(s))
  IN Then(s1, LAMBDA t : dispatchEvent(t, "madj2k-slidemenu-closed"))

\* lines 762-765
closeEvent(s) == close(s)

\* lines 1052-1054: the toggle gets the focus by a timer without delay
focusToggle(s) == [s EXCEPT !.widgets.focusPending = Toggle]

\* focusToggle of the flyout menu and of the pulldown menu: their toggles
\* are elements of the page around the slide menu
focusWidgetToggle(s) == [s EXCEPT !.widgets.focusPending = Page]

\* ------------------------------------------------- the flyout menu
\* Madj2kFlyoutMenu with its default options; its two timers have the same
\* delay and fire in the order of their creation.
flyoutOpenStatusBodyClass == "flyout-open"
flyoutOpenStatusBodyClassOverflow == "flyout-open-overflow"

flyoutToggleNoScroll(s) ==
  LET noScrollClasses ==
        {flyoutOpenStatusBodyClass}
          \cup (IF overflowing(s) THEN {flyoutOpenStatusBodyClassOverflow} ELSE {})
      attr == s.helperEl.scrollTopAttr
  IN IF flyoutOpenStatusBodyClass \notin s.bodyEl.classes
     THEN [s EXCEPT !.helperEl.scrollTopAttr = <<-s.page.scrollY>>,
                    !.helperEl.styled = TRUE,
                    !.helperEl.innerTop = <<-s.page.scrollY>>,
                    !.bodyEl.classes = @ \cup noScrollClasses,
                    !.page.scrollY = 0]
     ELSE [s EXCEPT !.helperEl.styled = FALSE,
                    !.helperEl.innerTop = <<>>,
                    !.bodyEl.classes =
                      @ \ {flyoutOpenStatusBodyClass, flyoutOpenStatusBodyClassOverflow},
                    !.page.scrollY =
                      IF overflowing(s)
                      THEN parseInt(IF attr = <<>> THEN 0 ELSE attr[1]) * (-1)
                      ELSE 0]

\* positionMenu and resizeMenu with heightMode 'full'
flyoutResizeAndPositionMenu(s) ==
  [s EXCEPT !.widgets.flyout.top = "rect.bottom",
            !.widgets.flyout.height = <<"full", s.page.innerHeight>>]

flyoutClose(s) ==
  LET f == s.widgets.flyout
  IN IF ~(openStatusClass \in f.menu /\ animationCloseStatusClass \notin f.menu)
     THEN s
     ELSE LET s1 == dispatchEvent(s, "madj2k-flyoutmenu-closing")
              s2 == [s1 EXCEPT
                       !.widgets.flyout.menu = @ \cup {animationCloseStatusClass},
                       !.widgets.flyout.toggle =
                         (@ \cup {animationCloseStatusClass}) \ {openStatusClass},
                       !.widgets.flyout.ariaExpanded = "false",
                       !.bodyEl.classes = @ \cup {"flyout-closing"}]
              s3 == flyoutToggleNoScroll(s2)
          IN [s3 EXCEPT !.widgets.flyout.containerTop = "-100%",
                        !.widgets.flyout.timers = Append(@, "closed")]

\* the close event and the close button; nothing closes while an input
\* element has the focus
flyoutCloseEvent(s, onCloseBtn) ==
  IF s.widgets.inputFocused THEN s
  ELSE IF onCloseBtn THEN focusWidgetToggle(flyoutClose(s)) ELSE flyoutClose(s)

flyoutOpenedTimer(s) ==
  dispatchEvent(
    [s EXCEPT !.widgets.flyout.menu = @ \ {animationOpenStatusClass},
              !.widgets.flyout.toggle = @ \ {animationOpenStatusClass},
              !.bodyEl.classes = @ \ {"flyout-opening"}],
    "madj2k-flyoutmenu-opened")

flyoutClosedTimer(s) ==
  dispatchEvent(
    [s EXCEPT !.widgets.flyout.menu = @ \ {openStatusClass, animationCloseStatusClass},
              !.widgets.flyout.toggle = @ \ {animationCloseStatusClass},
              !.bodyEl.classes = @ \ {"flyout-closing"}],
    "madj2k-flyoutmenu-closed")

\* ----------------------------------------------- the pulldown menu
pulldownClose(s, i) ==
  IF openStatusClass \notin s.widgets.pulldown[i].menu THEN s
  ELSE dispatchEvent(
         [s EXCEPT !.widgets.pulldown[i].menu = @ \ {openStatusClass},
                   !.widgets.pulldown[i].toggle = @ \ {openStatusClass},
                   !.widgets.pulldown[i].ariaExpanded = "false"],
         "madj2k-pulldownmenu-closed")

\* the listener of pulldown menu i for the close event on document and for
\* a resize of the window
pulldownCloseEvent(s, i) ==
  IF s.widgets.pulldown[i].present /\ ~s.widgets.inputFocused
  THEN pulldownClose(s, i) ELSE s

\* the close event on document, or a resize: the listeners of the pulldown
\* menus i, i + 1, ... run
RECURSIVE pulldownCloseEvents(_, _)
pulldownCloseEvents(s, i) ==
  IF i > NumPulldowns THEN s
  ELSE pulldownCloseEvents(pulldownCloseEvent(s, i), i + 1)

\* the listener of pulldown menu i for a click that reaches document and
\* was made outside its menu and its toggle
closeViaDocumentClickEvent(s, i) ==
  IF s.widgets.pulldown[i].present /\ ~s.widgets.inputFocused
  THEN pulldownClose(s, i) ELSE s

RECURSIVE closeViaDocumentClickEvents(_, _)
closeViaDocumentClickEvents(s, i) ==
  IF i > NumPulldowns THEN s
  ELSE closeViaDocumentClickEvents(closeViaDocumentClickEvent(s, i), i + 1)

\* a click outside every pulldown menu reaches the document
clickReachesDocument(s) == closeViaDocumentClickEvents(s, 1)

\* ------------------------------------------------ events on document
\* document.dispatchEvent: the event is recorded and the listeners of the
\* widgets on the page run; what a listener throws is reported, not passed
\* on to the dispatcher.
notify(s, name) ==
  LET s1 == dispatchEvent(s, name)
      heard ==
        CASE name = "madj2k-slidemenu-close" -> closeEvent(s1)
          [] name = "madj2k-flyoutmenu-close" /\ s1.widgets.flyout.present ->
               flyoutCloseEvent(s1, FALSE)
          [] name = "madj2k-pulldownmenu-close" -> pulldownCloseEvents(s1, 1)
          [] OTHER -> s1
  IN IF Threw(heard)
     THEN [heard EXCEPT !.call.threw = NoException, !.call.warned = TRUE]
     ELSE heard

flyoutOpen(s) ==
  LET f == s.widgets.flyout
  IN IF openStatusClass \in f.menu \/ animationOpenStatusClass \in f.menu THEN s
     ELSE LET s1 == notify(notify(notify(s, "madj2k-slidemenu-close"),
                                  "madj2k-pulldownmenu-close"),
                           "madj2k-flyoutmenu-opening")
              s2 == flyoutResizeAndPositionMenu(flyoutToggleNoScroll(s1))
          IN [s2 EXCEPT
                !.widgets.flyout.menu = @ \cup {openStatusClass, animationOpenStatusClass},
                !.widgets.flyout.toggle = @ \cup {openStatusClass, animationOpenStatusClass},
                !.widgets.flyout.ariaExpanded = "true",
                !.bodyEl.classes = @ \cup {"flyout-opening"},
                !.widgets.flyout.containerTop = "0",
                !.widgets.flyout.timers = Append(@, "opened")]

flyoutToggle(s) ==
  IF openStatusClass \in s.widgets.flyout.toggle THEN flyoutClose(s) ELSE flyoutOpen(s)

pulldownOpen(s, i) ==
  IF openStatusClass \in s.widgets.pulldown[i].menu THEN s
  ELSE LET s1 == notify(notify(s, "madj2k-slidemenu-close"), "madj2k-flyoutmenu-close")
       IN dispatchEvent(
            [s1 EXCEPT !.widgets.pulldown[i].menu = @ \cup {openStatusClass},
                       !.widgets.pulldown[i].toggle = @ \cup {openStatusClass},
                       !.widgets.pulldown[i].ariaExpanded = "true"],
            "madj2k-pulldownmenu-opened")

\* part_007 lines 416-420: madj2k-pulldownmenu-close is dispatched on each
\* other toggle element.  The event does not bubble (new Event(name)) and
\* the listeners for it are registered on document (line 396), none on a
\* toggle: no listener runs.
closeOtherMenus(s, i) == s

pulldownToggle(s, i) ==
  LET isOpen == openStatusClass \in s.widgets.pulldown[i].toggle
      s1 == closeOtherMenus(s, i)
  IN IF isOpen THEN pulldownClose(s1, i) ELSE pulldownOpen(s1, i)

\* ---------------------------------------------------------------- open
\* faulty variant: the guard forgets the open class
openBlocked_openingOnly(s) == animationOpenStatusClass \in s.menuEl.classes

\* lines 777-778
openBlocked(s) ==
  \/ openStatusClass \in s.menuEl.classes
  \/ animationOpenStatusClass \in s.menuEl.classes

\* lines 790-800
markOpening(s) ==
  [s EXCEPT !.menuEl.classes = @ \cup {openStatusClass, animationOpenStatusClass},
            !.toggleEl.classes = @ \cup {openStatusClass, animationOpenStatusClass},
            !.toggleEl.ariaExpanded = "true"]

\* faulty variant: always the first active card
firstOpenCard_home(s) == s.settings.activeCards[1]

\* faulty variant: always the last active card
firstOpenCard_deepest(s) == s.settings.activeCards[Len(s.settings.activeCards)]

\* lines 802-804
firstOpenCard(s) ==
  s.settings.activeCards[IF s.cfg.startOnHome THEN 1 ELSE Len(s.settings.activeCards)]

\* lines 806-827
showMenu(s) ==
  LET s1 == setOpenCard(s, firstOpenCard(s))
      s2 == repositionCards(resizeCards(s1))
      s3 == animateWrap(s2, "-100%", "0")
  IN [s3 EXCEPT !.timers = Append(@, [kind |-> "opened", card |-> 0]),
                !.call.retOpen = "true"]

open(s) ==
  LET s1 == loadMenu(s)
  IN IF Threw(s1) THEN s1
     ELSE IF s1.call.retLoad = "false" \/ openBlocked(s1)
     THEN [s1 EXCEPT !.call.retOpen = "false"]
     ELSE LET s2 == notify(notify(s1, "madj2k-flyoutmenu-close"),
                           "madj2k-slidemenu-opening")
              s3 == toggleNoScroll(s2)
              s4 == Then(s3, disableTabIndexOnAllCards)
              s5 == Then(s4, positionMenu)
              s6 == Then(s5, markOpening)
          IN Then(s6, showMenu)

\* faulty variant: the opening class is taken off the menu element only
unmarkOpening_menuOnly(s) ==
  [s EXCEPT !.menuEl.classes = @ \ {animationOpenStatusClass}]

\* lines 817-818
unmarkOpening(s) ==
  [s EXCEPT !.menuEl.classes = @ \ {animationOpenStatusClass},
            !.toggleEl.classes = @ \ {animationOpenStatusClass}]

\* lines 816-825: the timer callback of open()
openTimer(s) ==
  LET s1 == unmarkOpening(s)
      s2 == focusFirstItemOfOpenCard(
              toggleWaiAriaForOpenCard(toggleTabIndexOnOpenCard(s1)))
  IN dispatchEvent(s2, "madj2k-slidemenu-opened")

\* lines 748-753
toggleEvent(s) ==
  LET s1 == open(s)
  IN IF Threw(s1) \/ s1.call.retOpen = "true" THEN s1 ELSE close(s1)

\* faulty variant: Escape closes the menu and leaves the focus where it is
keyboardEvent_escapeKeepsFocus(s, key, onToggle) ==
  CASE key = "ArrowUp" -> IF onToggle THEN close(s) ELSE s
    [] key = "ArrowDown" -> IF onToggle THEN open(s) ELSE s
    [] key = "Escape" -> close(s)
    [] OTHER -> s

\* lines 887-936, for a key pressed on the toggle or on an element of the
\* menu, Tab apart (keyboardEventTab).  Enter has no case.
keyboardEvent(s, key, onToggle) ==
  CASE key = "ArrowUp" -> IF onToggle THEN close(s) ELSE s
    [] key = "ArrowDown" -> IF onToggle THEN open(s) ELSE s
    [] key = "Escape" -> Then(close(s), focusToggle)
    [] OTHER -> s

\* lines 913-919: the elements of the open card itself that do not carry
\* tabindex="-1", in document order
focusables(s) ==
  IF s.settings.openCard # 0 /\ s.cardEls[s.settings.openCard].tabindex = "unset"
  THEN <<Element(s.settings.openCard, "head"), Element(s.settings.openCard, "tail")>>
  ELSE <<>>

\* lines 910-934, the Tab case: the element the handler focuses after
\* preventDefault, NoElement when it leaves the key to the browser
keyboardEventTab(s, shift) ==
  LET f == focusables(s)
      active == s.widgets.activeElement
  IN IF f = <<>> THEN NoElement
     ELSE IF shift /\ active = f[1] THEN f[Len(f)]
     ELSE IF ~shift /\ active = f[Len(f)] THEN f[1]
     ELSE NoElement

\* Sequential focus navigation of the browser: the toggle, the elements of
\* the menu and the rest of the page in document order; elements with
\* tabindex="-1" are skipped.
tabOrder == <<Toggle>> \o menuElements \o <<Page>>

tabbable(s, e) == e.card = 0 \/ s.cardEls[e.card].tabindex = "unset"

RECURSIVE seek(_, _, _)
seek(s, i, step) ==
  LET n == Len(tabOrder)
      j == ((i - 1 + step + n) % n) + 1
  IN IF tabbable(s, tabOrder[j]) THEN tabOrder[j] ELSE seek(s, j, step)

\* where Tab (Shift+Tab) takes the focus when no handler prevents it; from
\* the rest of the page the focus may also stay in the rest of the page
tabTargets(s, shift) ==
  LET i == CHOOSE k \in 1..Len(tabOrder) : tabOrder[k] = s.widgets.activeElement
  IN {seek(s, i, IF shift THEN -1 ELSE 1)}
       \cup (IF s.widgets.activeElement = Page THEN {Page} ELSE {})

\* Tab or Shift+Tab is pressed: the listener of the focused element (the
\* toggle, or an element of the menu once bindEvents has run), then the
\* browser's default unless prevented
tabPressed(s, shift, target) ==
  LET active == s.widgets.activeElement
      heard == active = Toggle \/ (active.card > 0 /\ s.settings.binds > 0)
      trapped == IF heard THEN keyboardEventTab(s, shift) ELSE NoElement
  IN [s EXCEPT !.widgets.activeElement = IF trapped # NoElement THEN trapped ELSE target]

\* Madj2kFlyoutMenu.destroyEvents: every removeEventListener is handed an
\* arrow function created in the call, which is not one of the listeners
\* that bindEvents registered: nothing is removed.
flyoutDestroyEvents(s) == s

\* Madj2kFlyoutMenu.destroyResizeObserver
flyoutDestroyResizeObserver(s) == [s EXCEPT !.widgets.flyout.observing = FALSE]

\* Madj2kFlyoutMenu.destroy
flyoutDestroy(s) == flyoutClose(flyoutDestroyResizeObserver(flyoutDestroyEvents(s)))

\* a click on the toggle: its listener runs, then the click reaches document
toggleClicked(s) == clickReachesDocument(toggleEvent(s))

\* Madj2kFlyoutMenu.keyboardEvent and Madj2kPulldownMenu.keyboardEvent, for
\* a key pressed on the widget's toggle
flyoutKeyboardEvent(s, key) ==
  CASE key = "ArrowUp" -> flyoutClose(s)
    [] key = "Enter" -> flyoutToggle(s)
    [] key = "ArrowDown" -> flyoutOpen(s)
    [] key = "Escape" -> focusWidgetToggle(flyoutClose(s))
    [] OTHER -> s

pulldownKeyboardEvent(s, i, key) ==
  CASE key = "ArrowUp" -> pulldownClose(s, i)
    [] key = "Enter" -> pulldownToggle(s, i)
    [] key = "ArrowDown" -> pulldownOpen(s, i)
    [] key = "Escape" -> focusWidgetToggle(pulldownClose(s, i))
    [] OTHER -> s

\* ----------------------------------------------------- card navigation
\* faulty variant: only the controlled card is looked for
previousCardEvent_ignoresParent(s, c, parent) ==
  IF c = 0 THEN s
  ELSE LET s1 == disableTabIndexOnAllCards(s)
           s2 == [s1 EXCEPT !.cardEls[c].classes = @ \cup {animationCloseStatusClass}]
           s3 == animateCard(s2, c, "0", "100%")
       IN [s3 EXCEPT !.timers = Append(@, [kind |-> "previous", card |-> c])]

\* lines 944-967, for a back control whose aria-controls names card c and
\* whose data-parent-card names card parent; 0 for a reference that
\* getElementById does not resolve.  In the markup of the templates parent
\* is the card around c, the one the timer opens.
previousCardEvent(s, c, parent) ==
  IF c = 0 \/ parent = 0 THEN s
  ELSE LET s1 == disableTabIndexOnAllCards(s)
           s2 == [s1 EXCEPT !.cardEls[c].classes = @ \cup {animationCloseStatusClass}]
           s3 == animateCard(s2, c, "0", "100%")
       IN [s3 EXCEPT !.timers = Append(@, [kind |-> "previous", card |-> c])]

\* faulty variant: the card that slid out stays the open card
previousTimer_staysOnCard(s, c) ==
  LET s1 == changeOpenCard(s, c)
      s2 == [s1 EXCEPT !.cardEls[c].classes = @ \ {animationCloseStatusClass}]
  IN dispatchEvent(s2, "madj2k-slidemenu-previous-opened")

\* lines 962-966: the timer callback of previousCardEvent
previousTimer(s, c) ==
  LET s1 == changeOpenCard(s, parentCard(c))
      s2 == [s1 EXCEPT !.cardEls[c].classes = @ \ {animationCloseStatusClass}]
  IN dispatchEvent(s2, "madj2k-slidemenu-previous-opened")

\* lines 978-1000, for a next control of card c
nextCardEvent(s, c) ==
  LET s1 == disableTabIndexOnAllCards(s)
      s2 == [s1 EXCEPT !.cardEls[c].classes = @ \cup {animationOpenStatusClass}]
      s3 == animateCard(s2, c, "100%", "0")
  IN [s3 EXCEPT !.timers = Append(@, [kind |-> "next", card |-> c])]

nextTimer(s, c) ==
  LET s1 == changeOpenCard(s, c)
      s2 == [s1 EXCEPT !.cardEls[c].classes = @ \ {animationOpenStatusClass}]
  IN dispatchEvent(s2, "madj2k-slidemenu-next-opened")

\* faulty variant: the resize listener also closes the menu
resizeCardsEvent_closes(s) == closeEvent(resizeCards(s))

resizeCardsEvent(s) == resizeCards(s)

positionMenuEvent(s) == positionMenu(s)

\* ------------------------------------------------------------- history
\* The class sets of menu element, toggle, cards and body.
classSets(s) ==
  [menu |-> s.menuEl.classes, toggle |-> s.toggleEl.classes,
   body |-> s.bodyEl.classes, cards |-> [c \in Cards |-> s.cardEls[c].classes]]

NoHistory ==
  [phase |-> "idle", snap |-> {}, overlap |-> FALSE,
   nav |-> "none", child |-> 0, navigated |-> FALSE]

\* nav follows a navigation from the root card into a child card and back in
\* which every animation frame runs before its timer and nothing else acts:
\* root -> nexting -> child -> backing -> back.
nextNav(label, s) ==
  LET settled == hist.child # 0 /\ cardEls[hist.child].frame = "none"
  IN CASE label \in {"frame", "resize", "scroll", "focus"} -> hist.nav
       [] label = "opened" ->
            IF /\ s.settings.openCard = 1
               /\ s.menuEl.classes = {openStatusClass}
               /\ openStatusClass \in s.toggleEl.classes
               /\ s.timers = <<>>
            THEN "root" ELSE "none"
       [] label = "nextClick" ->
            IF hist.nav = "root" /\ parentCard(s.timers[Len(s.timers)].card) = 1
            THEN "nexting" ELSE "none"
       [] label = "next" -> IF hist.nav = "nexting" /\ settled THEN "child" ELSE "none"
       [] label = "previousClick" ->
            IF hist.nav = "child" /\ s.timers[Len(s.timers)].card = hist.child
            THEN "backing" ELSE "none"
       [] label = "previous" -> IF hist.nav = "backing" /\ settled THEN "back" ELSE "none"
       [] label = "missingPrevious" -> "ignored"
       [] OTHER -> "none"

\* phase follows a round trip in which nothing but the lifecycle acts:
\* opening -> open -> closing -> closed -> reopening -> reopen.  label names
\* the step, s is the state it produces.
nextPhase(label, s) ==
  LET opened == s.call.retOpen = "true"
      closed == s.call.retClose = "true"
      ph == hist.phase
  IN CASE label \in {"frame", "resize", "scroll", "focus"} -> ph
       [] label = "handler" /\ opened ->
            IF ph = "closed" THEN "reopening"
            ELSE IF menuEl.classes = {} /\ timers = <<>> THEN "opening"
            ELSE "idle"
       [] label = "handler" /\ closed ->
            IF ph \in {"open", "reopen"} THEN "closing" ELSE "idle"
       [] label = "handler" /\ ~opened /\ ~closed ->
            IF Threw(s) THEN "idle" ELSE ph
       [] label = "opened" ->
            IF ph = "opening" THEN "open"
            ELSE IF ph = "reopening" THEN "reopen" ELSE "idle"
       [] label = "closed" -> IF ph = "closing" THEN "closed" ELSE "idle"
       [] OTHER -> "idle"

track(label, s) ==
  LET ph == nextPhase(label, s)
  IN [phase |-> ph,
      snap |-> IF ph = "open" /\ hist.phase = "opening" THEN {classSets(s)}
               ELSE IF ph = "idle" THEN {} ELSE hist.snap,
      overlap |-> IF s.call.retOpen = "true" THEN FALSE
                  ELSE IF s.call.retClose = "true"
                  THEN animationOpenStatusClass \in menuEl.classes
                  ELSE hist.overlap,
      nav |-> nextNav(label, s),
      child |-> IF label = "nextClick" THEN s.timers[Len(s.timers)].card
                ELSE IF nextNav(label, s) = "none" THEN 0 ELSE hist.child,
      navigated |-> hist.navigated \/ label = "next"]

\* ------------------------------------------------------- construction
\* Options and markup of the page.  An option that cannot matter (no menu
\* element, no items, markup that is not built from the items) is fixed to
\* its default.
AllConfigs ==
  {c \in [menuExists : BOOLEAN, hasItems : BOOLEAN, templatesOk : BOOLEAN,
          preRendered : BOOLEAN, loadOnOpen : BOOLEAN, startOnHome : BOOLEAN,
          scrollHelper : BOOLEAN, activeDepth : Cards, currentCard : {0} \cup Cards,
          ariaExpanded : {"false", "unset"}] :
     LET usual == c.hasItems /\ c.templatesOk /\ ~c.preRendered
     IN /\ ~c.hasItems => c.templatesOk
        /\ ~c.menuExists => usual /\ ~c.startOnHome /\ c.scrollHelper /\ c.activeDepth = 1
        /\ ~usual => ~c.startOnHome /\ c.activeDepth = 1
        /\ c.currentCard # 0 => c.currentCard = c.activeDepth /\ c.currentCard > 1
        /\ c.ariaExpanded = "unset" => ~c.hasItems /\ c.preRendered /\ c.loadOnOpen}

\* The configurations followed through card navigation: the non-default
\* values of the independent options are taken one at a time.
Configs ==
  {c \in AllConfigs :
     (c.menuExists /\ c.hasItems /\ c.templatesOk /\ ~c.preRendered) =>
       \/ c.loadOnOpen /\ ~c.startOnHome /\ c.scrollHelper
       \/ ~c.loadOnOpen /\ ~c.startOnHome /\ c.scrollHelper /\ c.activeDepth = 1
       \/ c.loadOnOpen /\ c.startOnHome /\ c.scrollHelper /\ c.activeDepth = NumCards
       \/ c.loadOnOpen /\ ~c.startOnHome /\ ~c.scrollHelper /\ c.activeDepth = 1}

\* a page without banner, resize helper and slider
NoBanner == [used |-> FALSE]

NoBetterResize == [used |-> FALSE]

NoSlider == [used |-> FALSE]

NoOverlay == [used |-> FALSE]

NoScrolling == [used |-> FALSE]

NoFlyouts == [used |-> FALSE]

NoMore == overlay = NoOverlay /\ scrolling = NoScrolling /\ flyouts = NoFlyouts

NoOthers ==
  banner = NoBanner /\ betterResize = NoBetterResize /\ slider = NoSlider /\ NoMore

\* The cards as the markup holds them: the cards on the active path below
\* the first card carry the active class, nothing is positioned yet.  The
\* controls of the card of the current page are rendered with aria-expanded
\* "true" (getItemMarker, line 1326); current is the card of the current
\* page when that page has subpages, 0 otherwise.
markupCard(c, depth, current) ==
  [classes |-> IF 1 < c /\ c <= depth THEN {activeStatusClass} ELSE {},
   left |-> "unset", frame |-> "none", height |-> "unset",
   tabindex |-> "unset",
   controlExpanded |-> (c > 1 /\ c = current),
   wrapControlExpanded |-> (c > 1 /\ c = current)]

\* a page without other menu widgets, the focus outside any input element
NoWidgets ==
  [flyout |-> [present |-> FALSE, menu |-> {}, toggle |-> {}, ariaExpanded |-> "false",
               top |-> "unset", height |-> <<>>, containerTop |-> "unset",
               timers |-> <<>>, observing |-> FALSE],
   pulldown |-> [i \in Pulldowns |->
                   [present |-> FALSE, menu |-> {}, toggle |-> {}, ariaExpanded |-> "false"]],
   inputFocused |-> FALSE,
   activeElement |-> Page,
   focusPending |-> NoElement]

\* lines 606-634: the state the constructor leaves before loadMenu
constructed(c, h, y) ==
  [cfg |-> c,
   page |-> [innerHeight |-> h, scrollY |-> y],
   settings |-> [isLoaded |-> FALSE, cards |-> {}, activeCards |-> <<>>,
                 openCard |-> 0, menuWrap |-> FALSE, binds |-> 0],
   menuEl |-> [classes |-> {}, top |-> "unset", builds |-> 0,
               html |-> IF c.preRendered THEN "prerendered" ELSE "empty"],
   toggleEl |-> [classes |-> {}, ariaExpanded |-> c.ariaExpanded],
   bodyEl |-> [classes |-> {}],
   helperEl |-> [scrollTopAttr |-> <<>>, styled |-> FALSE, innerTop |-> <<>>],
   wrapEl |-> [top |-> "unset", frame |-> "none"],
   cardEls |-> [k \in Cards |-> markupCard(k, c.activeDepth, c.currentCard)],
   timers |-> <<>>,
   call |-> NewCall,
   widgets |-> NoWidgets]

\* lines 636-638
constructor(c, h, y) ==
  IF c.loadOnOpen THEN constructed(c, h, y) ELSE loadMenu(constructed(c, h, y))

\* no tree is followed through buildHtml
NoBuild == [tree |-> [n |-> 0], html |-> <<>>, done |-> FALSE]

InitFrom(configs) ==
  \E c \in configs, h \in {"short", "tall"}, y \in ScrollOffsets :
    /\ h = "tall" => y = 0
    /\ Commit0(constructor(c, h, y))
    /\ hist = NoHistory
    /\ build = NoBuild
    /\ NoOthers

Init == InitFrom(Configs)

LifecycleInit == InitFrom(AllConfigs)

\* ------------------------------------------------------------- actions
navTimers == Len(SelectSeq(timers, LAMBDA x : x.kind \in {"next", "previous"}))

ToggleClick ==
  LET s == toggleClicked(Begin(State))
  IN /\ Commit(s)
     /\ hist' = track("handler", s)

CallOpen ==
  LET s == open(Begin(State))
  IN /\ Commit(s)
     /\ hist' = track("handler", s)

CallClose ==
  LET s == close(Begin(State))
  IN /\ Commit(s)
     /\ hist' = track("handler", s)

CloseEvent ==
  LET s == closeEvent(Begin(State))
  IN /\ Commit(s)
     /\ hist' = track("handler", s)

\* A control can be clicked while it is on screen: the menu is shown and the
\* card holding the control sits at left 0, like the cards around it.
onScreen(c) == openStatusClass \in menuEl.classes /\ inViewport(State, c)

\* The card nested in card c lies over the controls of card c while it sits
\* at left 0: they cannot be clicked then.
covered(c) == c + 1 \in settings.cards /\ cardEls[c + 1].left = "0"

\* a click on the next control of card c, which lies in the parent card
NextCardClick ==
  \E c \in Cards \ {1} :
    /\ settings.binds > 0
    /\ onScreen(parentCard(c)) /\ ~covered(parentCard(c))
    /\ navTimers < MaxTimers
    /\ Commit(clickReachesDocument(nextCardEvent(Begin(State), c)))
    /\ hist' = track("nextClick", nextCardEvent(Begin(State), c))

\* a click on the back control of card c, which lies in card c
PreviousCardClick ==
  \E c \in Cards \ {1} :
    /\ settings.binds > 0
    /\ onScreen(c) /\ ~covered(c)
    /\ navTimers < MaxTimers
    /\ Commit(clickReachesDocument(previousCardEvent(Begin(State), c, parentCard(c))))
    /\ hist' = track("previousClick", previousCardEvent(Begin(State), c, parentCard(c)))

\* a click on a back control of card b whose aria-controls or
\* data-parent-card names no element of the page
PreviousCardClickMissing ==
  \E b \in Cards \ {1} : \E c \in {0, b}, parent \in {0, parentCard(b)} :
    /\ c = 0 \/ parent = 0
    /\ settings.binds > 0
    /\ onScreen(b) /\ ~covered(b)
    /\ Commit(clickReachesDocument(previousCardEvent(Begin(State), c, parent)))
    /\ hist' = track("missingPrevious", previousCardEvent(Begin(State), c, parent))

runTimer(s, t) ==
  CASE t.kind = "opened" -> openTimer(s)
    [] t.kind = "closed" -> closeTimer(s)
    [] t.kind = "next" -> nextTimer(s, t.card)
    [] t.kind = "previous" -> previousTimer(s, t.card)

FireTimer ==
  /\ timers # <<>>
  /\ LET s == runTimer([Begin(State) EXCEPT !.timers = Tail(@)], Head(timers))
     IN /\ Commit(s)
        /\ hist' = track(Head(timers).kind, s)

\* requestAnimationFrame callbacks of animateElement (lines 1211-1214)
runFrame(s) ==
  [s EXCEPT !.wrapEl = IF @.frame = "none" THEN @ ELSE [top |-> @.frame, frame |-> "none"],
            !.cardEls = [c \in Cards |->
               IF @[c].frame = "none" THEN @[c]
               ELSE [@[c] EXCEPT !.left = s.cardEls[c].frame, !.frame = "none"]]]

AnimationFrame ==
  /\ wrapEl.frame # "none" \/ \E c \in Cards : cardEls[c].frame # "none"
  /\ Commit(runFrame(Begin(State)))
  /\ hist' = track("frame", runFrame(Begin(State)))

\* The window is resized; the listeners of bindEvents run (lines 738-739),
\* the flyout menu's observer resizes it and the pulldown menu closes.
resized(s, h) ==
  LET s1 == [s EXCEPT !.page.innerHeight = h,
                      !.page.scrollY = IF h = "tall" THEN 0 ELSE @]
      s2 == IF s1.settings.binds > 0 THEN positionMenuEvent(resizeCardsEvent(s1)) ELSE s1
      s3 == IF s2.widgets.flyout.present /\ s2.widgets.flyout.observing
            THEN [s2 EXCEPT !.widgets.flyout.height = <<"full", h>>] ELSE s2
  IN pulldownCloseEvents(s3, 1)

Resize ==
  \E h \in {"short", "tall"} :
    /\ h # page.innerHeight
    /\ Commit(resized(Begin(State), h))
    /\ hist' = track("resize", resized(Begin(State), h))

\* The user scrolls the document.
Scroll ==
  \E y \in ScrollOffsets :
    /\ overflowing(State)
    /\ y # page.scrollY
    /\ Commit([Begin(State) EXCEPT !.page.scrollY = y])
    /\ hist' = track("scroll", [Begin(State) EXCEPT !.page.scrollY = y])

\* A key is pressed on the toggle, or on an element of the menu once
\* bindEvents has run.  Enter on the toggle, a button, also clicks it.
Keys == {"ArrowUp", "ArrowDown", "Escape", "Enter"}

keyDown(key, onToggle) ==
  LET s1 == keyboardEvent(Begin(State), key, onToggle)
      s == IF key = "Enter" /\ onToggle THEN toggleClicked(s1) ELSE s1
  IN /\ onToggle \/ settings.binds > 0
     /\ Commit(s)
     /\ hist' = track("handler", s)

KeyDown == \E key \in Keys, onToggle \in BOOLEAN : keyDown(key, onToggle)

tabKey(shift) ==
  \E target \in tabTargets(State, shift) :
    /\ Commit(tabPressed(Begin(State), shift, target))
    /\ hist' = track("focus", State)

TabKey == \E shift \in BOOLEAN : tabKey(shift)

\* the timer of focusToggle and of focusFirstItemOfOpenCard
FocusTimer ==
  /\ widgets.focusPending # NoElement
  /\ Commit([Begin(State) EXCEPT !.widgets.focusPending = NoElement,
                                 !.widgets.activeElement = widgets.focusPending,
                                 !.widgets.inputFocused = FALSE])
  /\ hist' = track("focus", State)

\* The user moves the focus into or out of an input element.
FocusChange ==
  /\ Commit([Begin(State) EXCEPT !.widgets.inputFocused = ~@,
                                 !.widgets.activeElement = Page])
  /\ hist' = track("focus", State)

\* the flyout menu: a click on its toggle, a key on its toggle, the close
\* event or its close button, its timers
FlyoutClick ==
  /\ widgets.flyout.present
  /\ Commit(clickReachesDocument(flyoutToggle(Begin(State))))
  /\ hist' = track("widget", State)

FlyoutKey ==
  \E key \in Keys :
    /\ widgets.flyout.present
    /\ Commit(flyoutKeyboardEvent(Begin(State), key))
    /\ hist' = track("widget", State)

FlyoutCloseEvent ==
  \E onCloseBtn \in BOOLEAN :
    /\ widgets.flyout.present
    /\ Commit(IF onCloseBtn
              THEN clickReachesDocument(flyoutCloseEvent(Begin(State), TRUE))
              ELSE flyoutCloseEvent(Begin(State), FALSE))
    /\ hist' = track("widget", State)

FlyoutTimer ==
  /\ widgets.flyout.timers # <<>>
  /\ LET s == [Begin(State) EXCEPT !.widgets.flyout.timers = Tail(@)]
     IN Commit(IF Head(widgets.flyout.timers) = "opened"
               THEN flyoutOpenedTimer(s) ELSE flyoutClosedTimer(s))
  /\ hist' = track("widget", State)

FlyoutDestroy ==
  /\ widgets.flyout.present /\ widgets.flyout.observing
  /\ Commit(flyoutDestroy(Begin(State)))
  /\ hist' = track("widget", State)

\* the pulldown menu: a click on its toggle (not passed on to document), a
\* key on its toggle, the close event, a click elsewhere on the page
pulldownClick(i) ==
  /\ widgets.pulldown[i].present
  /\ Commit(pulldownToggle(Begin(State), i))
  /\ hist' = track("widget", State)

PulldownClick == \E i \in Pulldowns : pulldownClick(i)

pulldownKey(i, key) ==
  /\ widgets.pulldown[i].present
  /\ Commit(pulldownKeyboardEvent(Begin(State), i, key))
  /\ hist' = track("widget", State)

PulldownKey == \E i \in Pulldowns, key \in Keys : pulldownKey(i, key)

PulldownCloseEvent ==
  /\ \E i \in Pulldowns : widgets.pulldown[i].present
  /\ Commit(pulldownCloseEvents(Begin(State), 1))
  /\ hist' = track("widget", State)

DocumentClick ==
  /\ \E i \in Pulldowns : widgets.pulldown[i].present
  /\ Commit(clickReachesDocument(Begin(State)))
  /\ hist' = track("widget", State)

\* The menu's lifecycle and the page around it: toggle clicks, open() and
\* close() calls, close events, timers, animation frames, resizing, scrolling.
Lifecycle ==
  \/ ToggleClick
  \/ CallOpen
  \/ CallClose
  \/ CloseEvent
  \/ FireTimer
  \/ AnimationFrame
  \/ Resize
  \/ Scroll

Next ==
  \/ Lifecycle
  \/ NextCardClick
  \/ PreviousCardClick

Spec == Init /\ [][Next]_vars

\* The lifecycle without clicks on the card controls, for every configuration.
LifecycleSpec == LifecycleInit /\ [][Lifecycle]_vars

\* Card navigation on a menu built from its items and opened on demand by
\* its toggle; the page is neither scrolled nor resized.
NavigationConfigs ==
  {c \in AllConfigs :
     /\ c.menuExists /\ c.hasItems /\ c.templatesOk /\ ~c.preRendered
     /\ c.loadOnOpen /\ c.scrollHelper}

\* the page is taller than the window and not scrolled
NavigationInit ==
  InitFrom(NavigationConfigs) /\ page.scrollY = 0 /\ page.innerHeight = "short"

Navigation ==
  \/ ToggleClick
  \/ FireTimer
  \/ AnimationFrame
  \/ NextCardClick
  \/ PreviousCardClick

\* Card navigation with the keyboard focus followed, in markup that also
\* holds back controls with a missing reference.
Focus ==
  \/ Navigation
  \/ PreviousCardClickMissing
  \/ FocusTimer
  \/ TabKey

\* the default options, the current page on the first level
FocusInit ==
  /\ NavigationInit
  /\ ~cfg.startOnHome /\ cfg.activeDepth = 1 /\ cfg.currentCard = 0

FocusSpec == FocusInit /\ [][Focus]_vars

NavigationSpec == NavigationInit /\ [][Navigation]_vars

\* The menuItemsJson trees of up to MaxItems items.
Trees ==
  UNION {[n : {n}, parent : {f \in [1..n -> 0..(n - 1)] : \A i \in 1..n : f[i] < i},
          sub : [1..n -> BOOLEAN], linked : [1..n -> BOOLEAN]] : n \in 1..MaxItems}

\* A page with the default options whose menu is built from a tree of items.
BuildInit ==
  /\ \E c \in NavigationConfigs :
        /\ ~c.startOnHome /\ c.scrollHelper /\ c.activeDepth = 1 /\ c.currentCard = 0
        /\ Commit0(constructor(c, "short", 0))
  /\ hist = NoHistory
  /\ NoOthers
  /\ \E tree \in Trees : build = [tree |-> tree, html |-> <<>>, done |-> FALSE]

\* line 689: this.buildHtml(this.settings.menuItemsJson)
BuildMenu ==
  /\ ~build.done
  /\ build' = [build EXCEPT !.html = buildHtml(build.tree, children(build.tree, 0), 0),
                            !.done = TRUE]
  /\ UNCHANGED <<cfg, page, settings, menuEl, toggleEl, bodyEl, helperEl, wrapEl,
                 cardEls, timers, call, widgets, hist, others>>

BuildSpec == BuildInit /\ [][BuildMenu]_vars

\* The lifecycle with the keyboard.
Keyboard ==
  \/ Lifecycle
  \/ KeyDown
  \/ FocusTimer

KeyboardSpec == LifecycleInit /\ [][Keyboard]_vars

\* A page with a slide menu, a flyout menu and a pulldown menu, each with
\* its default options and closed; the flyout menu's constructor has
\* positioned and sized it.
withWidgets(s) ==
  flyoutResizeAndPositionMenu(
    [s EXCEPT !.widgets.flyout.present = TRUE, !.widgets.flyout.observing = TRUE,
              !.widgets.pulldown = [i \in Pulldowns |-> [@[i] EXCEPT !.present = TRUE]]])

WidgetsInit ==
  /\ \E c \in NavigationConfigs, h \in {"short", "tall"} :
        /\ ~c.startOnHome /\ c.activeDepth = 1 /\ c.currentCard = 0
        /\ Commit0(withWidgets(constructor(c, h, 0)))
  /\ hist = NoHistory
  /\ build = NoBuild
  /\ NoOthers

Widgets ==
  \/ ToggleClick
  \/ KeyDown
  \/ CloseEvent
  \/ FireTimer
  \/ FocusTimer
  \/ FocusChange
  \/ FlyoutClick
  \/ FlyoutKey
  \/ FlyoutCloseEvent
  \/ FlyoutTimer
  \/ FlyoutDestroy
  \/ PulldownClick
  \/ PulldownKey
  \/ PulldownCloseEvent
  \/ DocumentClick

WidgetsSpec == WidgetsInit /\ [][Widgets]_vars

\* Timers and animation frames that are pending do fire.
FairSpec == Spec /\ WF_vars(FireTimer) /\ WF_vars(AnimationFrame)

\* =============================================================== claims
\* The menu-level state, read off the classes of the menu element.
IsOpening == cfg.menuExists /\ animationOpenStatusClass \in menuEl.classes
IsClosing == cfg.menuExists /\ animationCloseStatusClass \in menuEl.classes
IsOpen == cfg.menuExists /\ menuEl.classes = {openStatusClass}
IsClosed == cfg.menuExists /\ openStatusClass \notin menuEl.classes

pending(kind) == \E i \in 1..Len(timers) : timers[i].kind = kind

firing(kind) == FireTimer /\ Head(timers).kind = kind

\* Nothing the program owns changes (the page is left alone as well).
Untouched ==
  UNCHANGED <<cfg, page, settings, menuEl, toggleEl, bodyEl, helperEl, wrapEl,
              cardEls, timers>>

Silent == call'.events = <<>> /\ call'.threw = NoException

\* C1: while the menu element carries the open or the opening class, open()
\* returns false, dispatches nothing, schedules no timer and changes no class,
\* attribute, open card or scroll-lock state.
C1_OpenReentrant ==
  [][(CallOpen /\ cfg.menuExists
        /\ (openStatusClass \in menuEl.classes
            \/ animationOpenStatusClass \in menuEl.classes))
     => (call'.retOpen = "false" /\ Silent /\ Untouched)]_vars

C1_Witness ==
  /\ openStatusClass \in menuEl.classes
  /\ call.retOpen = "false"
  /\ call.retClose = "n/a"

\* C2 as stated: close() is a no-op whenever the menu is Closing or is not
\* Open, which includes Closed and Opening.
C2_CloseNoOpUnlessOpen ==
  [][(CallClose /\ (IsClosing \/ IsClosed \/ IsOpening))
     => (call'.retClose = "false" /\ Silent /\ Untouched)]_vars

\* C2 amended: close() is a no-op whenever the menu element carries the
\* closing class or lacks the open class (Closing, Closed); while the menu
\* is still Opening and not yet closing, close() returns true and enters Closing.
C2_CloseGuard ==
  [][/\ (CallClose /\ (IsClosing \/ IsClosed))
          => (call'.retClose = "false" /\ Silent /\ Untouched)
     /\ (CallClose /\ IsOpening /\ ~IsClosing /\ ~IsClosed)
          => (call'.retClose = "true"
              /\ animationCloseStatusClass \in menuEl'.classes
              /\ pending("closed")')]_vars

C2_Witness ==
  /\ IsClosing
  /\ call.retClose = "false"
  /\ call.retOpen = "n/a"

\* C3: once no open or close timer is pending, neither the menu element nor
\* the toggle carries opening or closing, and the menu element carries open
\* exactly when the toggle does.
C3_NoStuckClasses ==
  (~pending("opened") /\ ~pending("closed")) =>
    /\ menuEl.classes \cap {animationOpenStatusClass, animationCloseStatusClass} = {}
    /\ toggleEl.classes \cap {animationOpenStatusClass, animationCloseStatusClass} = {}
    /\ (openStatusClass \in menuEl.classes) <=> (openStatusClass \in toggleEl.classes)

\* close() took effect while the menu was still opening, and both timers fired
C3_Witness ==
  /\ hist.overlap
  /\ ~pending("opened") /\ ~pending("closed")
  /\ IsClosed

\* C4: a successful open() stores the scroll offset, freezes the page and
\* resets the viewport; the close timer releases the lock and scrolls back
\* to the stored offset.
C4_ScrollRoundTrip ==
  [][/\ (CallOpen /\ cfg.scrollHelper /\ call'.retOpen = "true")
          => (helperEl'.scrollTopAttr = <<-page.scrollY>>
              /\ helperEl'.styled /\ page'.scrollY = 0)
     /\ (firing("closed") /\ cfg.scrollHelper /\ helperEl.scrollTopAttr # <<>>)
          => (~helperEl'.styled
              /\ page'.scrollY = -helperEl.scrollTopAttr[1])]_vars

\* the menu can be loaded: it is loaded, or its container will hold markup
loadable ==
  /\ cfg.menuExists
  /\ settings.isLoaded \/ cfg.preRendered \/ (cfg.hasItems /\ cfg.templatesOk)

\* C5: open() on a closed, loadable menu with the scroll helper returns true
\* and reaches Opening whether or not the page overflows; body carries the
\* overflow class afterwards exactly when the content is taller than the window.
C5_OpenLocksEitherWay ==
  [][(CallOpen /\ loadable /\ cfg.scrollHelper /\ menuEl.classes = {})
     => (/\ call'.retOpen = "true"
         /\ call'.threw = NoException
         /\ animationOpenStatusClass \in menuEl'.classes
         /\ (openStatusBodyClassOverflow \in bodyEl'.classes) <=> overflowing(State))]_vars

\* C6: without a menu element no call raises an exception or changes state.
C6_MissingMenuInert ==
  ~cfg.menuExists =>
    /\ call.threw = NoException
    /\ call.events = <<>>
    /\ timers = <<>>
    /\ toggleEl.classes = {} /\ bodyEl.classes = {}
    /\ ~settings.isLoaded

\* C7: with items but a template missing, the container's HTML stays as it
\* was and loadMenu raises no exception, pre-rendered markup or not.
C7_MissingTemplatesDegrade ==
  (cfg.menuExists /\ cfg.hasItems /\ ~cfg.templatesOk) =>
    /\ menuEl.html = (IF cfg.preRendered THEN "prerendered" ELSE "empty")
    /\ call.threw # MenuWrapIsNull

\* C8: a successful open() / close() leaves its timer pending, and the timer
\* removes opening from menu and toggle and dispatches opened / removes open
\* and closing from the menu element and dispatches closed.
C8_TimersComplete ==
  [][/\ call'.retOpen = "true" => pending("opened")'
     /\ call'.retClose = "true" => pending("closed")'
     /\ firing("opened") =>
          /\ animationOpenStatusClass \notin menuEl'.classes
          /\ animationOpenStatusClass \notin toggleEl'.classes
          /\ call'.events = <<"madj2k-slidemenu-opened">>
     /\ firing("closed") =>
          /\ menuEl'.classes \cap {openStatusClass, animationCloseStatusClass} = {}
          /\ call'.events = <<"madj2k-slidemenu-closed">>]_vars

\* C9: after open, close, open, each run to the firing of its timer with
\* nothing else acting on the menu, the class sets of menu element, toggle,
\* cards and body are those after the first open, free of opening/closing.
C9_RoundTrip ==
  hist.phase = "reopen" =>
    /\ hist.snap = {classSets(State)}
    /\ animationOpenStatusClass \notin menuEl.classes \cup toggleEl.classes
    /\ animationCloseStatusClass \notin menuEl.classes \cup toggleEl.classes
    /\ \A c \in Cards :
         cardEls[c].classes \cap {animationOpenStatusClass, animationCloseStatusClass} = {}

C9_Witness ==
  /\ hist.phase = "reopen"
  /\ hist.snap # {}
  /\ IsOpen

\* C10: aria-expanded of the toggle is "true" exactly when the toggle carries
\* the open class, and the step that enters Closing sets it to "false".
C10_AriaExpandedMirrors ==
  /\ [](cfg.menuExists =>
          ((toggleEl.ariaExpanded = "true") <=> (openStatusClass \in toggleEl.classes)))
  /\ [][(~IsClosing /\ IsClosing') => toggleEl'.ariaExpanded = "false"]_vars

C10_Witness ==
  /\ IsClosing
  /\ call.retClose = "true"
  /\ toggleEl.ariaExpanded = "false"

\* the cards carrying the open-card class
shown == {c \in Cards : openCardStatusClass \in cardEls[c].classes}

\* C11: at most one card carries show; once open() has succeeded an open card
\* is recorded for good, and it is the one card that carries show.
C11_SingleOpenCard ==
  /\ [](/\ Cardinality(shown) <= 1
        /\ settings.openCard # 0 => shown = {settings.openCard})
  /\ [][/\ call'.retOpen = "true" => settings'.openCard # 0
        /\ settings.openCard # 0 => settings'.openCard # 0]_vars

\* a navigation timer fired while another navigation is still under way
C11_Witness ==
  /\ call.events = <<"madj2k-slidemenu-next-opened">>
  /\ navTimers >= 1
  /\ settings.openCard > 1
  /\ shown = {settings.openCard}

\* the cards carrying the active class: the active path
activePath == {c \in Cards : activeStatusClass \in cardEls[c].classes}

deepest(S) == CHOOSE c \in S : \A d \in S : d <= c

\* C12: with startOnHome false, a successful open() makes the deepest card
\* of the active path the open card.
C12_OpensDeepestActive ==
  [][(call'.retOpen = "true" /\ ~cfg.startOnHome)
     => (/\ settings'.openCard = deepest(activePath')
         /\ settings'.openCard = cfg.activeDepth
         /\ openCardStatusClass \in cardEls'[settings'.openCard].classes)]_vars

C12_Witness ==
  /\ call.retOpen = "true"
  /\ ~cfg.startOnHome
  /\ cfg.activeDepth = NumCards
  /\ settings.openCard = NumCards
  /\ shown = {NumCards}

\* C13: with startOnHome true, a successful open() makes the first card the
\* open card, whatever the active path and the card shown before.
C13_OpensHome ==
  [][(call'.retOpen = "true" /\ cfg.startOnHome)
     => (settings'.openCard = 1 /\ openCardStatusClass \in cardEls'[1].classes)]_vars

\* opened again on the first card after a navigation into a child card
C13_Witness ==
  /\ call.retOpen = "true"
  /\ cfg.startOnHome
  /\ cfg.activeDepth > 1
  /\ hist.navigated
  /\ shown = {1}

\* C14: from the open menu on its first card, a next navigation into a child
\* card and a previous navigation back, each with its animation frame and
\* its timer run, leave the first card as the only card with show, and all
\* elements of the child card (and of the cards in it) with tabindex -1.
C14_NextThenPrevious ==
  hist.nav = "back" =>
    /\ settings.openCard = 1
    /\ shown = {1}
    /\ \A c \in descendantsOrSelf(hist.child) : cardEls[c].tabindex = "-1"

C14_Witness ==
  /\ hist.nav = "back"
  /\ hist.child = 2
  /\ call.events = <<"madj2k-slidemenu-previous-opened">>
  /\ cardEls[1].tabindex = "unset"

\* C15: after a timer updated the tab order with the menu open, an element
\* is without tabindex only if it lies in the open card and in the window's
\* horizontal extent; all other elements have tabindex -1.
C15_TabOrderFollowsOpenCard ==
  [][(FireTimer /\ openStatusClass \in toggleEl'.classes)
     => \A c \in Cards :
          /\ cardEls'[c].tabindex \in {"unset", "-1"}
          /\ cardEls'[c].tabindex = "unset"
               => (/\ c \in descendantsOrSelf(settings'.openCard)
                   /\ inViewport(State', c))]_vars

\* the open card's own elements are reachable, those of a card in it that
\* is out of view are not
C15_Witness ==
  /\ call.events # <<>>
  /\ timers = <<>>
  /\ openStatusClass \in toggleEl.classes
  /\ cardEls[settings.openCard].tabindex = "unset"
  /\ \E c \in descendantsOrSelf(settings.openCard) :
        ~inViewport(State, c) /\ cardEls[c].tabindex = "-1"

\* C16: once the menu has been opened, a next-card control has aria-expanded
\* "true" only if it names the open card, and none has while the toggle
\* lacks the open class.
C16_ControlsMirrorOpenCard ==
  settings.openCard # 0 =>
    \A c \in Cards :
      (cardEls[c].controlExpanded \/ cardEls[c].wrapControlExpanded)
        => (c = settings.openCard /\ openStatusClass \in toggleEl.classes)

\* an item with children says so in hasSubpages
validTree(tree) ==
  \A i \in 1..tree.n : children(tree, i) # <<>> => tree.sub[i]

blocks(html, i) ==
  Cardinality({k \in 1..Len(html) : html[k] = Tok("<li.item>", i)})

\* C17: the HTML built from a valid tree holds exactly one item block for
\* each item of the tree, whatever its depth, and no other item block.
C17_OneBlockPerItem ==
  (build.done /\ validTree(build.tree)) =>
    /\ \A i \in 1..build.tree.n : blocks(build.html, i) = 1
    /\ Cardinality({k \in 1..Len(build.html) : build.html[k].t = "<li.item>"})
         = build.tree.n

\* a tree of three levels with two branches has been built
C17_Witness ==
  /\ build.done
  /\ validTree(build.tree)
  /\ build.tree.n = 4
  /\ build.tree.parent = <<0, 1, 2, 0>>
  /\ Len(build.html) > 0

\* C18: the container's HTML is built and the card, keyboard and resize
\* listeners are bound at most once; once the menu is loaded no loadMenu()
\* or open() builds, binds or unloads again.
C18_LoadsOnce ==
  /\ [](menuEl.builds <= 1 /\ settings.binds <= 1)
  /\ [][settings.isLoaded =>
          /\ settings'.isLoaded
          /\ menuEl'.html = menuEl.html
          /\ menuEl'.builds = menuEl.builds
          /\ settings'.binds = settings.binds]_vars

\* the menu was loaded by the constructor and has been opened twice since
C18_Witness ==
  /\ ~cfg.loadOnOpen
  /\ hist.phase = "reopening"
  /\ call.retLoad = "true"
  /\ menuEl.builds = 1
  /\ settings.binds = 1

\* the menu widgets whose toggle carries the open class
openToggles ==
  {w \in {"slide", "flyout", "pulldown"} :
     openStatusClass \in (CASE w = "slide" -> toggleEl.classes
                            [] w = "flyout" -> widgets.flyout.toggle
                            [] w = "pulldown" ->
                                 UNION {widgets.pulldown[i].toggle : i \in Pulldowns})}

\* C19: no two toggles of different menu widgets carry the open class in
\* the same state: opening one closes, or starts closing, the others.
C19_MutuallyExclusive == Cardinality(openToggles) <= 1

\* the states in which open() can work: markup to show, and a class for
\* body when the scroll helper is used
canOpen == loadable /\ (cfg.scrollHelper => overflowing(State))

Opens ==
  /\ {openStatusClass, animationOpenStatusClass} \subseteq menuEl'.classes
  /\ {openStatusClass, animationOpenStatusClass} \subseteq toggleEl'.classes
  /\ toggleEl'.ariaExpanded = "true"
  /\ \E i \in 1..Len(call'.events) : call'.events[i] = "madj2k-slidemenu-opening"

\* C20: from Closed, a click, Enter or ArrowDown on the toggle moves the
\* menu to Opening; ArrowDown on another element does not open it.
C20_ToggleActivationOpens ==
  [][/\ (IsClosed /\ (ToggleClick \/ keyDown("Enter", TRUE) \/ keyDown("ArrowDown", TRUE)))
          => Opens
     /\ (IsClosed /\ keyDown("ArrowDown", FALSE))
          => (menuEl'.classes = menuEl.classes /\ call'.events = <<>>)]_vars

Closes ==
  /\ {openStatusClass, animationCloseStatusClass} \subseteq menuEl'.classes
  /\ animationCloseStatusClass \in toggleEl'.classes
  /\ openStatusClass \notin toggleEl'.classes
  /\ toggleEl'.ariaExpanded = "false"
  /\ pending("closed")'
  /\ call'.threw = NoException

\* C21: from Open, Escape on the toggle or on a menu control, ArrowUp on
\* the toggle, the madj2k-slidemenu-close event and a click on the toggle
\* each move the menu to Closing; Escape also sends the focus to the toggle.
C21_CloseRequestsClose ==
  [][/\ (IsOpen /\ (\/ keyDown("Escape", TRUE) \/ keyDown("Escape", FALSE)
                    \/ keyDown("ArrowUp", TRUE) \/ CloseEvent \/ ToggleClick))
          => Closes
     /\ (IsOpen /\ (keyDown("Escape", TRUE) \/ keyDown("Escape", FALSE)))
          => widgets'.focusPending = Toggle]_vars

\* Escape was pressed in Open: only the timer of close() is pending
C21_Witness ==
  /\ IsClosing /\ widgets.focusPending = Toggle
  /\ Len(timers) = 1 /\ timers[1].kind = "closed"

\* the open card's focusable set, while the menu is open
focusSet ==
  IF openStatusClass \in toggleEl.classes
  THEN {focusables(State)[i] : i \in 1..Len(focusables(State))} ELSE {}

\* C22: Tab on the last focusable element of the open card moves the focus
\* to the first, Shift+Tab on the first to the last, and Tab or Shift+Tab
\* pressed inside the open card's focusable set never takes the focus out
\* of it.
C22_FocusTrap ==
  [][/\ (tabKey(FALSE) /\ focusSet # {}
           /\ widgets.activeElement = focusables(State)[Len(focusables(State))])
          => widgets'.activeElement = focusables(State)[1]
     /\ (tabKey(TRUE) /\ focusSet # {}
           /\ widgets.activeElement = focusables(State)[1])
          => widgets'.activeElement = focusables(State)[Len(focusables(State))]
     /\ (TabKey /\ widgets.activeElement \in focusSet)
          => widgets'.activeElement \in focusSet]_vars

\* C23: a click on a back control whose parent card or controlled card
\* does not exist changes no class, tabindex, position or open card,
\* schedules no timer and dispatches no event.
C23_MissingReferenceIgnored ==
  [][PreviousCardClickMissing =>
       /\ cardEls' = cardEls /\ settings' = settings
       /\ menuEl' = menuEl /\ toggleEl' = toggleEl /\ wrapEl' = wrapEl
       /\ bodyEl' = bodyEl /\ helperEl' = helperEl
       /\ timers' = timers /\ widgets' = widgets
       /\ call'.events = <<>> /\ call'.threw = NoException]_vars

\* such a click was made while a card below the root card was open
C23_Witness ==
  /\ hist.nav = "ignored"
  /\ settings.openCard > 1 /\ cardEls[settings.openCard].tabindex = "unset"

\* C24: a window resize changes card heights and the menu's top position
\* only: the classes and aria-expanded of menu and toggle, the open card,
\* every tabindex and the pending timers stay as they are.
C24_ResizeKeepsState ==
  [][Resize =>
       /\ menuEl'.classes = menuEl.classes
       /\ toggleEl' = toggleEl /\ bodyEl' = bodyEl
       /\ settings' = settings
       /\ \A c \in Cards : cardEls'[c] = [cardEls[c] EXCEPT !.height = cardEls'[c].height]
       /\ wrapEl' = wrapEl
       /\ timers' = timers
       /\ call'.events = <<>> /\ call'.threw = NoException]_vars

\* the window was resized while the menu was opening: with the scroll
\* helper the menu opens in the short window only
C24_Witness ==
  /\ IsOpening /\ cfg.scrollHelper /\ pending("opened")
  /\ page.innerHeight = "tall"
  /\ cardEls[1].height = <<"tall", "- rect.bottom">>
  /\ menuEl.top = "rect.bottom"

\* the flyout menu after destroy()
flyoutDestroyed == widgets.flyout.present /\ ~widgets.flyout.observing

\* C25: after destroy() of the flyout menu, clicks and keys on its toggle,
\* its close button and its controls and the madj2k-flyoutmenu-close event
\* no longer change the menu, which ends closed.
C25_DestroyUnbinds ==
  [][(flyoutDestroyed /\ (FlyoutClick \/ FlyoutKey \/ FlyoutCloseEvent))
       => (/\ widgets'.flyout.menu = widgets.flyout.menu
           /\ widgets'.flyout.toggle = widgets.flyout.toggle
           /\ widgets'.flyout.ariaExpanded = widgets.flyout.ariaExpanded
           /\ widgets'.flyout.timers = widgets.flyout.timers)]_vars

\* C26: after a click or Enter on the toggle of one pulldown menu no other
\* pulldown menu is open: no other toggle carries the open class or
\* aria-expanded "true".
C26_ToggleClosesOthers ==
  [][\A i \in Pulldowns :
       (pulldownClick(i) \/ pulldownKey(i, "Enter")) =>
         \A j \in Pulldowns \ {i} :
           /\ openStatusClass \notin widgets'.pulldown[j].toggle
           /\ widgets'.pulldown[j].ariaExpanded # "true"]_vars

\* ----------------------------------------------------------- Madj2kBanner
\* Strings are sequences of characters.  Cookie names: the second has the
\* first as a prefix.
CookieNames == {<<"b">>, <<"b", "b">>}

cookieOrder == << <<"b", "b">>, <<"b">> >>

menuVars == <<cfg, page, settings, menuEl, toggleEl, bodyEl, helperEl, wrapEl,
              cardEls, timers, call, widgets, hist, build>>

\* The menus of the page, constructed with their default options and left
\* alone.
MenusIdle ==
  /\ \E c \in NavigationConfigs :
        /\ ~c.startOnHome /\ c.activeDepth = 1 /\ c.currentCard = 0
        /\ Commit0(constructor(c, "short", 0))
  /\ hist = NoHistory
  /\ build = NoBuild

\* document.cookie as the browser returns it: the cookies that have not
\* expired as name=value, joined by "; "
RECURSIVE documentCookie(_, _)
documentCookie(jar, i) ==
  IF i > Len(cookieOrder) THEN <<>>
  ELSE LET rest == documentCookie(jar, i + 1)
           name == cookieOrder[i]
       IN IF jar[name] = 0 THEN rest
          ELSE name \o <<"=", "1">> \o (IF rest = <<>> THEN <<>> ELSE <<";", " ">> \o rest)

\* String.split(';')
RECURSIVE split(_)
split(str) ==
  IF \A i \in 1..Len(str) : str[i] # ";" THEN <<str>>
  ELSE LET k == CHOOSE i \in 1..Len(str) :
                  str[i] = ";" /\ \A j \in 1..(i - 1) : str[j] # ";"
       IN <<SubSeq(str, 1, k - 1)>> \o split(SubSeq(str, k + 1, Len(str)))

\* part_000 lines 166-168: leading blanks are dropped
RECURSIVE trimStart(_)
trimStart(c) == IF c # <<>> /\ c[1] = " " THEN trimStart(Tail(c)) ELSE c

\* c.indexOf(name) === 0
startsWith(c, name) == Len(c) >= Len(name) /\ SubSeq(c, 1, Len(name)) = name

\* part_000 lines 161-176: the value of the cookie cookieName, '' without
RECURSIVE findCookie(_, _)
findCookie(ca, name) ==
  IF ca = <<>> THEN <<>>
  ELSE LET c == trimStart(Head(ca))
       IN IF startsWith(c, name) THEN SubSeq(c, Len(name) + 1, Len(c))
          ELSE findCookie(Tail(ca), name)

getCookie(b, cookieName) ==
  findCookie(split(documentCookie(b.jar, 1)), cookieName \o <<"=">>)

\* part_000 lines 150-156
setCookie(b, cookieName, cookieDays) == [b EXCEPT !.jar[cookieName] = cookieDays]

\* faulty variant: the banner closes without a cookie
closeBanner_noCookie(b, cookieName, cookieDays) ==
  [b EXCEPT !.classes = (@ \cup {"closing"}) \ {"open"},
            !.later = Append(@, "closed")]

\* part_000 lines 134-145
closeBanner(b, cookieName, cookieDays) ==
  [setCookie(b, cookieName, cookieDays) EXCEPT
     !.classes = (@ \cup {"closing"}) \ {"open"},
     !.later = Append(@, "closed")]

\* part_000 lines 84-127, for an instance with the given cookieName and
\* cookieDays
initBanner(b, cookieName, cookieDays) ==
  IF b.exists /\ getCookie(b, cookieName) = <<>>
  THEN [b EXCEPT !.classes = @ \cup {"active"},
                 !.soon = @ + 1,
                 !.listeners = IF b.closeButton
                               THEN Append(@, [cookieName |-> cookieName,
                                               cookieDays |-> cookieDays])
                               ELSE @,
                 !.constructed = @ + 1]
  ELSE [b EXCEPT !.constructed = @ + 1]

\* banner.clicked records the cookie names of the instances whose close
\* control was clicked, banner.closedHere that the close control was clicked
\* on this page after the banner was last shown.
\* a click on the close button: the listeners of the instances that showed
\* the banner run in the order of their registration
RECURSIVE closeClicked(_, _)
closeClicked(b, i) ==
  IF i > Len(b.listeners) THEN b
  ELSE closeClicked(closeBanner(b, b.listeners[i].cookieName, b.listeners[i].cookieDays),
                    i + 1)

\* A browser without cookies loads a page with or without the banner
\* element and its close button.
BannerInit ==
  /\ MenusIdle
  /\ betterResize = NoBetterResize /\ slider = NoSlider /\ NoMore
  /\ \E exists \in BOOLEAN, closeButton \in BOOLEAN :
        banner = [used |-> TRUE, exists |-> exists, closeButton |-> closeButton,
                  jar |-> [n \in CookieNames |-> 0], classes |-> {},
                  listeners |-> <<>>, soon |-> 0, later |-> <<>>, constructed |-> 0,
                  clicked |-> {}, closedHere |-> FALSE]

bannerConstruct(cookieName, cookieDays) ==
  /\ banner.constructed < MaxInstances
  /\ banner' = [initBanner(banner, cookieName, cookieDays) EXCEPT
                  !.closedHere = @ /\ initBanner(banner, cookieName, cookieDays).soon = banner.soon]
  /\ UNCHANGED <<menuVars, betterResize, slider, overlay, scrolling, flyouts>>

BannerConstruct ==
  \E cookieName \in CookieNames, cookieDays \in 1..MaxDays :
    bannerConstruct(cookieName, cookieDays)

BannerCloseClick ==
  /\ banner.listeners # <<>>
  /\ Len(banner.later) + Len(banner.listeners) <= MaxTimers + 1
  /\ banner' = [closeClicked(banner, 1) EXCEPT
                  !.clicked = @ \cup {banner.listeners[i].cookieName :
                                        i \in 1..Len(banner.listeners)},
                  !.closedHere = TRUE]
  /\ UNCHANGED <<menuVars, betterResize, slider, overlay, scrolling, flyouts>>

\* lines 93-100: the timer of 1 ms
BannerTimerSoon ==
  /\ banner.soon > 0
  /\ banner' = [banner EXCEPT !.soon = @ - 1,
                               !.classes = @ \cup {"opening"},
                               !.later = Append(@, "open")]
  /\ UNCHANGED <<menuVars, betterResize, slider, overlay, scrolling, flyouts>>

\* lines 95-99 and 141-145: the timers of config.timeout, oldest first
BannerTimerLater ==
  /\ banner.later # <<>>
  /\ banner' = [banner EXCEPT
                  !.later = Tail(@),
                  !.classes = IF Head(banner.later) = "open"
                              THEN (@ \cup {"open"}) \ {"opening"}
                              ELSE @ \ {"closing", "active"}]
  /\ UNCHANGED <<menuVars, betterResize, slider, overlay, scrolling, flyouts>>

\* The page is loaded again: the document is new, the cookies stay.
BannerReload ==
  /\ banner' = [banner EXCEPT !.classes = {}, !.listeners = <<>>, !.soon = 0,
                               !.later = <<>>, !.constructed = 0,
                               !.closedHere = FALSE]
  /\ UNCHANGED <<menuVars, betterResize, slider, overlay, scrolling, flyouts>>

\* A day passes: cookies come closer to their expiry.
BannerDay ==
  /\ \E n \in CookieNames : banner.jar[n] > 0
  /\ banner' = [banner EXCEPT !.jar = [n \in CookieNames |->
                                         IF @[n] > 0 THEN @[n] - 1 ELSE 0]]
  /\ UNCHANGED <<menuVars, betterResize, slider, overlay, scrolling, flyouts>>

BannerNext ==
  \/ BannerConstruct
  \/ BannerCloseClick
  \/ BannerTimerSoon
  \/ BannerTimerLater
  \/ BannerReload
  \/ BannerDay

BannerSpec == BannerInit /\ [][BannerNext]_vars

resizeEndTimeout == 2
scrollingEndTimeout == 3
viewportDeltaThreshold == 2

Sizes == 0..MaxSize

abs(n) == IF n < 0 THEN 0 - n ELSE n

\* clearTimeout(this.finalEventTimers[uniqueId]): the pending timer the
\* entry of uniqueId refers to is removed
clearFinalEventTimer(queue, uniqueId) ==
  SelectSeq(queue, LAMBDA tm : ~(tm.uniqueId = uniqueId /\ tm.current))

\* faulty variant: the earlier timer is left running
waitForFinalEvent_keepsTimer(r, ms, uniqueId) ==
  [r EXCEPT !.pending =
     Append([i \in 1..Len(@) |->
               IF @[i].uniqueId = uniqueId THEN [@[i] EXCEPT !.current = FALSE] ELSE @[i]],
            [uniqueId |-> uniqueId, left |-> ms, current |-> TRUE])]

\* part_006 lines 120-125; the callback is the one of uniqueId
waitForFinalEvent(r, ms, uniqueId) ==
  [r EXCEPT !.pending = Append(clearFinalEventTimer(@, uniqueId),
                               [uniqueId |-> uniqueId, left |-> ms, current |-> TRUE])]

\* part_006 lines 67-98: the listener of the window's resize event
resizeListener(r) ==
  LET deltaH == abs(r.lastViewportHeight - r.innerHeight)
      deltaW == abs(r.lastViewportWidth - r.innerWidth)
  IN IF deltaH < viewportDeltaThreshold /\ deltaW < viewportDeltaThreshold THEN r
     ELSE LET r1 == [r EXCEPT !.lastViewportHeight = r.innerHeight,
                              !.lastViewportWidth = r.innerWidth]
          IN IF ~r1.isScrolling THEN waitForFinalEvent(r1, resizeEndTimeout, "resize")
             ELSE r1

\* part_006 lines 105-111: the listener of scroll and touchmove
scrollingHandler(r) ==
  waitForFinalEvent([r EXCEPT !.isScrolling = TRUE], scrollingEndTimeout, "scrolling")

\* part_006 lines 82-94: the callback of the resize timer
resizeCallback(r) ==
  IF ~r.inputFocused
  THEN [r EXCEPT !.dispatched = <<"madj2k-better-resize-event", "madj2k-resize-end">>]
  ELSE r

\* part_006 lines 108-110: the callback of the scrolling timer
scrollingCallback(r) == [r EXCEPT !.isScrolling = FALSE]

resizePending(r) ==
  {i \in 1..Len(r.pending) : r.pending[i].uniqueId = "resize"}

\* A run of resize events is under way from an accepted resize event until
\* resizeEndTimeout has passed without another one.
underWay(r) == r.burst.started /\ r.burst.since < resizeEndTimeout

\* Bookkeeping of the runs of resize events (not part of the program):
\* since is the time since the last accepted resize event, dispatches the
\* number of madj2k-better-resize-event of the run, events the number of
\* its resize events (counted up to two), undisturbed whether
\* the run saw neither scrolling nor a focused input.
noted(before, after, accepted) ==
  LET calm == ~after.isScrolling /\ ~before.isScrolling /\ ~after.inputFocused
      b == before.burst
  IN [after EXCEPT !.burst =
        IF accepted
        THEN IF underWay(before) \/ resizePending(before) # {}
             THEN [b EXCEPT !.since = 0, !.undisturbed = @ /\ calm,
                            !.events = IF @ < 2 THEN @ + 1 ELSE @]
             ELSE [started |-> TRUE, since |-> 0, dispatches |-> 0, undisturbed |-> calm,
                   events |-> 1]
        ELSE [b EXCEPT !.undisturbed = @ /\ (calm \/ ~(underWay(before) \/ resizePending(before) # {})),
                       !.dispatches = IF after.dispatched # <<>> /\ @ < 2 THEN @ + 1 ELSE @]]

quiet(r) == [r EXCEPT !.dispatched = <<>>]

ResizeInit ==
  /\ MenusIdle
  /\ banner = NoBanner /\ slider = NoSlider /\ NoMore
  /\ \E h \in Sizes, w \in Sizes :
        betterResize = [used |-> TRUE, innerHeight |-> h, innerWidth |-> w,
                        lastViewportHeight |-> h, lastViewportWidth |-> w,
                        isScrolling |-> FALSE, inputFocused |-> FALSE,
                        pending |-> <<>>, dispatched |-> <<>>,
                        burst |-> [started |-> FALSE, since |-> resizeEndTimeout,
                                   dispatches |-> 0, undisturbed |-> TRUE,
                                   events |-> 0]]

\* The window gets another size and the resize event is dispatched.
WindowResize ==
  /\ \E h \in Sizes, w \in Sizes :
        /\ <<h, w>> # <<betterResize.innerHeight, betterResize.innerWidth>>
        /\ LET r == [quiet(betterResize) EXCEPT !.innerHeight = h, !.innerWidth = w]
               accepted == \/ abs(r.lastViewportHeight - h) >= viewportDeltaThreshold
                           \/ abs(r.lastViewportWidth - w) >= viewportDeltaThreshold
           IN betterResize' = noted(betterResize, resizeListener(r), accepted)
  /\ UNCHANGED <<menuVars, banner, slider, overlay, scrolling, flyouts>>

\* scroll or touchmove
ScrollEvent ==
  /\ \E type \in {"scroll", "touchmove"} :
        betterResize' = noted(betterResize, scrollingHandler(quiet(betterResize)), FALSE)
  /\ UNCHANGED <<menuVars, banner, slider, overlay, scrolling, flyouts>>

\* An input gets or loses the focus.
InputFocus ==
  /\ betterResize' = noted(betterResize,
                            [quiet(betterResize) EXCEPT !.inputFocused = ~@], FALSE)
  /\ UNCHANGED <<menuVars, banner, slider, overlay, scrolling, flyouts>>

due(r, uniqueId) ==
  {i \in 1..Len(r.pending) : r.pending[i].uniqueId = uniqueId /\ r.pending[i].left = 0}

without(queue, i) == SubSeq(queue, 1, i - 1) \o SubSeq(queue, i + 1, Len(queue))

ResizeTimer ==
  /\ \E i \in due(betterResize, "resize") :
        betterResize' =
          noted(betterResize,
                resizeCallback([quiet(betterResize) EXCEPT !.pending = without(@, i)]),
                FALSE)
  /\ UNCHANGED <<menuVars, banner, slider, overlay, scrolling, flyouts>>

ScrollingTimer ==
  /\ \E i \in due(betterResize, "scrolling") :
        betterResize' =
          [scrollingCallback([quiet(betterResize) EXCEPT !.pending = without(@, i)])
             EXCEPT !.burst = betterResize.burst]
  /\ UNCHANGED <<menuVars, banner, slider, overlay, scrolling, flyouts>>

\* A tick passes; a timer that is due runs before the next tick.
ResizeTick ==
  /\ due(betterResize, "resize") = {} /\ due(betterResize, "scrolling") = {}
  /\ betterResize' =
       [quiet(betterResize) EXCEPT
          !.pending = [i \in 1..Len(@) |-> [@[i] EXCEPT !.left = @ - 1]],
          !.burst.since = IF @ < resizeEndTimeout THEN @ + 1 ELSE @]
  /\ UNCHANGED <<menuVars, banner, slider, overlay, scrolling, flyouts>>

ResizeNext ==
  \/ WindowResize
  \/ ScrollEvent
  \/ InputFocus
  \/ ResizeTimer
  \/ ScrollingTimer
  \/ ResizeTick

ResizeSpec == ResizeInit /\ [][ResizeNext]_vars

\* C28: at most one resize timer is pending; for a run of accepted resize
\* events less than resizeEndTimeout apart, without scrolling and without
\* a focused input, the resize timer fires resizeEndTimeout after the last
\* event of the run and dispatches madj2k-better-resize-event and then
\* madj2k-resize-end, and when the run is over exactly one of each has
\* been dispatched.
C28_DebouncedOnce ==
  /\ [](Cardinality(resizePending(betterResize)) <= 1)
  /\ []((/\ betterResize.burst.started /\ betterResize.burst.undisturbed
          /\ resizePending(betterResize) = {})
         => betterResize.burst.dispatches = 1)
  /\ [][(ResizeTimer /\ betterResize'.burst.undisturbed) =>
          /\ betterResize.burst.since = resizeEndTimeout
          /\ betterResize'.dispatched = <<"madj2k-better-resize-event", "madj2k-resize-end">>
          /\ betterResize'.burst.dispatches = 1]_vars

\* a run of two resize events has ended with its one dispatch
C28_Witness ==
  /\ betterResize.used /\ betterResize.burst.started /\ betterResize.burst.undisturbed
  /\ betterResize.dispatched # <<>> /\ betterResize.burst.dispatches = 1
  /\ betterResize.burst.events = 2

\* C29: no madj2k-better-resize-event is dispatched while isScrolling is
\* true.
C29_NoDispatchWhileScrolling ==
  [][betterResize'.dispatched # <<>> => ~betterResize.isScrolling]_vars

\* ------------------------------------------------- Madj2kSimpleFadeSlider
Sliders == 1..NumSliders

NaN == -1

\* (current + 1) % total as JavaScript computes it
remainder(a, b) == IF b = 0 THEN NaN ELSE a % b

\* this.slides[index]: the position in the sequence, 0 without such a slide
slideAt(f, index) == IF index >= 0 /\ index < Len(f.slides) THEN index + 1 ELSE 0

\* part_003 lines 99-107
setup(f) ==
  LET f1 == [f EXCEPT !.slides = [k \in 1..Len(@) |->
                                    [@[k] EXCEPT !.ariaHidden =
                                       IF k - 1 = 0 THEN "false" ELSE "true"]]]
  IN IF slideAt(f1, 0) # 0 THEN [f1 EXCEPT !.slides[1].visible = TRUE] ELSE f1

\* part_003 lines 74-92
sliderConstructor(f) ==
  setup([f EXCEPT !.constructed = TRUE, !.total = Len(f.slides), !.current = 0])

\* faulty variant: the slide that was shown stays visible
showNext_keepsVisible(f) ==
  LET f1 == [f EXCEPT !.current = remainder(f.current + 1, f.total)]
      nextSlide == slideAt(f1, f1.current)
  IN IF nextSlide # 0
     THEN [f1 EXCEPT !.slides[nextSlide] = [visible |-> TRUE, ariaHidden |-> "false"]]
     ELSE f1

\* part_003 lines 121-137
showNext(f) ==
  LET currentSlide == slideAt(f, f.current)
      f1 == IF currentSlide # 0
            THEN [f EXCEPT !.slides[currentSlide] = [visible |-> FALSE, ariaHidden |-> "true"]]
            ELSE f
      f2 == [f1 EXCEPT !.current = remainder(f.current + 1, f.total)]
      nextSlide == slideAt(f2, f2.current)
  IN IF nextSlide # 0
     THEN [f2 EXCEPT !.slides[nextSlide] = [visible |-> TRUE, ariaHidden |-> "false"]]
     ELSE f2

\* The page holds the containers with their slides as the documented
\* markup gives them: the slide class only.  No slider is constructed yet.
SliderInit ==
  /\ MenusIdle
  /\ banner = NoBanner /\ betterResize = NoBetterResize /\ NoMore
  /\ \E n \in [Sliders -> 0..MaxSlides] :
        slider = [used |-> TRUE,
                  at |-> [i \in Sliders |->
                            [constructed |-> FALSE, total |-> 0, current |-> 0,
                             wrapped |-> FALSE,
                             slides |-> [k \in 1..n[i] |->
                                           [visible |-> FALSE, ariaHidden |-> "unset"]]]]]

SliderConstruct ==
  /\ \E i \in Sliders :
        /\ ~slider.at[i].constructed
        /\ slider' = [slider EXCEPT !.at[i] = sliderConstructor(@)]
  /\ UNCHANGED <<menuVars, banner, betterResize, overlay, scrolling, flyouts>>

\* part_003 lines 113-115: the interval of slider i elapses; wrapped notes
\* that the slider has come back to its first slide
sliderTick(i) ==
  /\ slider.at[i].constructed
  /\ slider' = [slider EXCEPT !.at[i] =
                  [showNext(@) EXCEPT !.wrapped = @ \/ showNext(slider.at[i]).current = 0]]
  /\ UNCHANGED <<menuVars, banner, betterResize, overlay, scrolling, flyouts>>

SliderTick == \E i \in Sliders : sliderTick(i)

SliderNext ==
  \/ SliderConstruct
  \/ SliderTick

SliderSpec == SliderInit /\ [][SliderNext]_vars

visibleSlides(f) == {k \in 1..Len(f.slides) : f.slides[k].visible}

\* C30: a constructed slider with at least one slide has, after setup and
\* after every tick, current within 0..total-1, the visible class on
\* slides[current] and on no other slide, aria-hidden "false" on that
\* slide and "true" on the others; a tick moves current to
\* (current + 1) % total.
C30_OneVisibleSlide ==
  /\ [](\A i \in Sliders :
          LET f == slider.at[i]
          IN (f.constructed /\ Len(f.slides) >= 1) =>
               /\ f.total = Len(f.slides)
               /\ f.current \in 0..(f.total - 1)
               /\ visibleSlides(f) = {f.current + 1}
               /\ \A k \in 1..Len(f.slides) :
                    f.slides[k].ariaHidden = IF k = f.current + 1 THEN "false" ELSE "true")
  /\ [][\A i \in Sliders :
          (sliderTick(i) /\ Len(slider.at[i].slides) >= 1) =>
            slider'.at[i].current =
              IF slider.at[i].current = slider.at[i].total - 1 THEN 0
              ELSE slider.at[i].current + 1]_vars

\* a slider of several slides has gone round and shows its last slide
C30_Witness ==
  /\ slider.used
  /\ \E i \in Sliders :
        /\ slider.at[i].constructed /\ slider.at[i].wrapped
        /\ slider.at[i].total >= 2
        /\ slider.at[i].current = slider.at[i].total - 1

\* C37: once a close control of the shown banner has been clicked and
\* every banner timer has fired, the banner element carries none of the
\* classes active, opening, open and closing.
C37_ClosedBannerIsBare ==
  (banner.used /\ banner.closedHere /\ banner.soon = 0 /\ banner.later = <<>>)
    => banner.classes \cap {"active", "opening", "open", "closing"} = {}

\* -------------------------------------------- slide menu: events, timers
dispatched(name) == \E i \in 1..Len(call.events) : call.events[i] = name

\* C33: madj2k-slidemenu-opened is dispatched only with the menu Open: the
\* toggle carries the open class and the menu element no closing class.
C33_OpenedOnlyWhenOpen ==
  [][dispatched("madj2k-slidemenu-opened")' =>
       /\ openStatusClass \in toggleEl'.classes
       /\ animationCloseStatusClass \notin menuEl'.classes]_vars

pendingTimers(kind) == {i \in 1..Len(timers) : timers[i].kind = kind}

\* C34: at most one open-completion and at most one close-completion timer
\* are pending, and a completion timer fires in the cycle that scheduled
\* it: the opened timer while the menu element still carries open and
\* opening, the closed timer while it carries open and closing.
C34_OneCompletionTimer ==
  /\ [](Cardinality(pendingTimers("opened")) <= 1
         /\ Cardinality(pendingTimers("closed")) <= 1)
  /\ [][/\ firing("opened") =>
            {openStatusClass, animationOpenStatusClass} \subseteq menuEl.classes
        /\ firing("closed") =>
            {openStatusClass, animationCloseStatusClass} \subseteq menuEl.classes]_vars

\* both completion timers are pending: close() during the opening animation
C34_Witness ==
  /\ pendingTimers("opened") # {}
  /\ pendingTimers("closed") # {}

atLeftZero == {c \in settings.cards : cardEls[c].left = "0"}

\* C35: with the menu open, no card-navigation timer pending and every
\* animation frame run, the cards at left 0 are the open card and its
\* ancestor cards.
C35_PositionsFollowOpenCard ==
  (/\ IsOpen /\ navTimers = 0 /\ settings.openCard # 0
   /\ \A c \in Cards : cardEls[c].frame = "none")
    => atLeftZero = {settings.openCard} \cup ancestors(settings.openCard)

\* --------------------------------------------------- Madj2kToggledOverlay
OverlayToggles == 1..NumToggles

\* the elements with an id a toggle's aria-controls can name
OverlayTargets == 1..NumToggles

\* document.getElementById(toggle.getAttribute('aria-controls')): 0 for null
targetOf(o, t) == o.controls[t]

\* part_001 lines 65-82 without the listener: the initial ARIA state
RECURSIVE overlayInit(_, _)
overlayInit(o, t) ==
  IF t > NumToggles THEN o
  ELSE IF targetOf(o, t) = 0 THEN overlayInit(o, t + 1)
  ELSE overlayInit([o EXCEPT !.ariaHidden[targetOf(o, t)] = "true",
                             !.ariaExpanded[t] = "false",
                             !.bound = @ \cup {t}], t + 1)

\* part_001 lines 76-81: the click listener of toggle t
overlayToggleClick(o, t) ==
  LET isExpanded == o.ariaExpanded[t] = "true"
      target == targetOf(o, t)
  IN [o EXCEPT !.ariaExpanded[t] = IF isExpanded THEN "false" ELSE "true",
               !.ariaHidden[target] = IF isExpanded THEN "true" ELSE "false",
               !.visible[target] = ~isExpanded]

\* part_001 lines 87-97
RECURSIVE overlayCloseFrom(_, _)
overlayCloseFrom(o, t) ==
  IF t > NumToggles THEN o
  ELSE IF targetOf(o, t) = 0 THEN overlayCloseFrom(o, t + 1)
  ELSE overlayCloseFrom([o EXCEPT !.ariaExpanded[t] = "false",
                                  !.ariaHidden[targetOf(o, t)] = "true",
                                  !.visible[targetOf(o, t)] = FALSE], t + 1)

overlayClose(o) == overlayCloseFrom(o, 1)

\* part_001 lines 103-116; at is the element the click hit: a toggle, a
\* target or the rest of the page
RECURSIVE handleClickOutsideFrom(_, _, _)
handleClickOutsideFrom(o, at, t) ==
  IF t > NumToggles THEN o
  ELSE IF targetOf(o, t) = 0 THEN handleClickOutsideFrom(o, at, t + 1)
  ELSE LET clickedInsideToggle == at = [kind |-> "toggle", id |-> t]
           clickedInsideTarget == at = [kind |-> "target", id |-> targetOf(o, t)]
       IN handleClickOutsideFrom(
            IF ~clickedInsideToggle /\ ~clickedInsideTarget /\ o.ariaExpanded[t] = "true"
            THEN overlayClose(o) ELSE o,
            at, t + 1)

handleClickOutside(o, at) == handleClickOutsideFrom(o, at, 1)

\* The markup of the documentation: toggles with aria-expanded "false",
\* targets with aria-hidden "true" and without is-visible; aria-controls
\* of a toggle names a target or nothing.  The instance is constructed.
OverlayInit ==
  /\ MenusIdle
  /\ banner = NoBanner /\ betterResize = NoBetterResize
  /\ slider = NoSlider
  /\ scrolling = NoScrolling /\ flyouts = NoFlyouts
  /\ \E controls \in [OverlayToggles -> {0} \cup OverlayTargets] :
        overlay = overlayInit([used |-> TRUE, controls |-> controls,
                               ariaExpanded |-> [t \in OverlayToggles |-> "false"],
                               ariaHidden |-> [g \in OverlayTargets |-> "true"],
                               visible |-> [g \in OverlayTargets |-> FALSE],
                               bound |-> {}], 1)

\* a click on toggle t: its listener, then the listener of the document
overlayClick(t) ==
  /\ overlay' = handleClickOutside(
                   IF t \in overlay.bound THEN overlayToggleClick(overlay, t) ELSE overlay,
                   [kind |-> "toggle", id |-> t])
  /\ UNCHANGED <<menuVars, banner, betterResize, slider, scrolling, flyouts>>

OverlayClick == \E t \in OverlayToggles : overlayClick(t)

\* a click inside a target or on the rest of the page
OverlayClickElsewhere ==
  /\ \E at \in {[kind |-> "target", id |-> g] : g \in OverlayTargets}
                \cup {[kind |-> "page", id |-> 0]} :
        overlay' = handleClickOutside(overlay, at)
  /\ UNCHANGED <<menuVars, banner, betterResize, slider, scrolling, flyouts>>

\* madj2k-toggledoverlay-close is dispatched on the document
OverlayCloseEvent ==
  /\ overlay' = overlayClose(overlay)
  /\ UNCHANGED <<menuVars, banner, betterResize, slider, scrolling, flyouts>>

OverlayNext ==
  \/ OverlayClick
  \/ OverlayClickElsewhere
  \/ OverlayCloseEvent

OverlaySpec == OverlayInit /\ [][OverlayNext]_vars

\* C31: for each toggle whose aria-controls names a target, aria-expanded
\* is "true" exactly when the target's aria-hidden is "false" and exactly
\* when the target carries is-visible; after close() every such toggle is
\* collapsed.
C31_AriaConsistent ==
  /\ [](\A t \in OverlayToggles :
          targetOf(overlay, t) # 0 =>
            /\ (overlay.ariaExpanded[t] = "true")
                  <=> (overlay.ariaHidden[targetOf(overlay, t)] = "false")
            /\ (overlay.ariaExpanded[t] = "true")
                  <=> overlay.visible[targetOf(overlay, t)])
  /\ [][OverlayCloseEvent =>
          \A t \in OverlayToggles :
            targetOf(overlay, t) # 0 => overlay'.ariaExpanded[t] = "false"]_vars

\* C38: a click on a toggle with a target, once the listener of the toggle
\* and the listener of the document have run, leaves a collapsed toggle
\* expanded with its target visible and an expanded toggle collapsed.
C38_ClickInverts ==
  [][\A t \in OverlayToggles :
       (overlayClick(t) /\ targetOf(overlay, t) # 0) =>
         IF overlay.ariaExpanded[t] = "true"
         THEN overlay'.ariaExpanded[t] = "false"
         ELSE /\ overlay'.ariaExpanded[t] = "true"
              /\ overlay'.visible[targetOf(overlay, t)]]_vars

\* -------------------------------------------------------- Madj2kScrolling
ScrollPositions == 0..MaxScroll

ContentHeights == {"short", "long"}

\* faulty variant: the class of the earlier direction is left on the body
addScrollClasses_keepsOld(r) ==
  IF r.lastContentHeight # r.contentHeight
  THEN [r EXCEPT !.lastContentHeight = r.contentHeight]
  ELSE LET r1 ==
             IF "block-scroll-classes" \in r.body THEN r
             ELSE IF r.scrollY > 0
             THEN IF r.scrollY > r.lastScrollTop
                  THEN [r EXCEPT !.body = @ \cup {"scroll-down"}]
                  ELSE IF r.scrollY < r.lastScrollTop
                  THEN [r EXCEPT !.body = @ \cup {"scroll-up"}]
                  ELSE r
             ELSE [r EXCEPT !.body = @ \ {"scroll-down"}]
       IN [r1 EXCEPT !.lastScrollTop = r.scrollY]

\* part_001 lines 281-307
addScrollClasses(r) ==
  IF r.lastContentHeight # r.contentHeight
  THEN [r EXCEPT !.lastContentHeight = r.contentHeight]
  ELSE LET r1 ==
             IF "block-scroll-classes" \in r.body THEN r
             ELSE IF r.scrollY > 0
             THEN LET r0 == [r EXCEPT !.body = @ \ {"scroll-up", "scroll-down"}]
                  IN IF r.scrollY > r.lastScrollTop
                     THEN [r0 EXCEPT !.body = @ \cup {"scroll-down"}]
                     ELSE IF r.scrollY < r.lastScrollTop
                     THEN [r0 EXCEPT !.body = @ \cup {"scroll-up"}]
                     ELSE r0
             ELSE [r EXCEPT !.body = @ \ {"scroll-down"}]
       IN [r1 EXCEPT !.lastScrollTop = r.scrollY]

\* part_001 lines 243-248: the instance is constructed on a page at some
\* scroll position, the body without the classes of the instance
ScrollingInit ==
  /\ MenusIdle
  /\ banner = NoBanner /\ betterResize = NoBetterResize
  /\ slider = NoSlider /\ overlay = NoOverlay /\ flyouts = NoFlyouts
  /\ \E y \in ScrollPositions, h \in ContentHeights :
        scrolling = [used |-> TRUE, scrollY |-> y, contentHeight |-> h,
                     lastScrollTop |-> y, lastContentHeight |-> h, body |-> {}]

\* the window is scrolled to position y and its scroll event is dispatched
scrolledTo(y) ==
  /\ y # scrolling.scrollY
  /\ scrolling' = addScrollClasses([scrolling EXCEPT !.scrollY = y])
  /\ UNCHANGED <<menuVars, banner, betterResize, slider, overlay, flyouts>>

ScrolledTo == \E y \in ScrollPositions : scrolledTo(y)

\* the content of the page gets another height
ContentHeightChange ==
  /\ \E h \in ContentHeights \ {scrolling.contentHeight} :
        scrolling' = [scrolling EXCEPT !.contentHeight = h]
  /\ UNCHANGED <<menuVars, banner, betterResize, slider, overlay, flyouts>>

\* the page sets or removes block-scroll-classes on the body
BlockScrollClasses ==
  /\ scrolling' = [scrolling EXCEPT !.body =
                      IF "block-scroll-classes" \in @ THEN @ \ {"block-scroll-classes"}
                      ELSE @ \cup {"block-scroll-classes"}]
  /\ UNCHANGED <<menuVars, banner, betterResize, slider, overlay, flyouts>>

ScrollingNext ==
  \/ ScrolledTo
  \/ ContentHeightChange
  \/ BlockScrollClasses

ScrollingSpec == ScrollingInit /\ [][ScrollingNext]_vars

\* C32: the body never carries scroll-up and scroll-down together; a
\* scroll event with the content height unchanged and without
\* block-scroll-classes leaves, at scrollY > 0, scroll-down iff scrollY is
\* above the last recorded position and scroll-up iff it is below, and at
\* scrollY = 0 no scroll-down.
C32_ScrollDirectionClasses ==
  /\ [](~({"scroll-up", "scroll-down"} \subseteq scrolling.body))
  /\ [][\A y \in ScrollPositions :
          (/\ scrolledTo(y)
           /\ scrolling.lastContentHeight = scrolling.contentHeight
           /\ "block-scroll-classes" \notin scrolling.body) =>
            IF y > 0
            THEN /\ "scroll-down" \in scrolling'.body <=> y > scrolling.lastScrollTop
                 /\ "scroll-up" \in scrolling'.body <=> y < scrolling.lastScrollTop
            ELSE "scroll-down" \notin scrolling'.body]_vars

\* scrolled up, not to the top
C32_Witness ==
  /\ scrolling.used
  /\ "scroll-up" \in scrolling.body
  /\ scrolling.scrollY > 0
  /\ scrolling.lastScrollTop = scrolling.scrollY

\* ------------------------------------- several Madj2kFlyoutMenu instances
\* The instances with their default options: they share the body and its
\* classes, each has its toggle, its menu and its timers.
Flyouts == 1..NumFlyouts

\* readme.md lines 834-858: the class on the body decides, whichever
\* instance set it
toggleNoScrollOf(f) ==
  LET noScrollClasses ==
        {flyoutOpenStatusBodyClass}
          \cup (IF f.overflowing THEN {flyoutOpenStatusBodyClassOverflow} ELSE {})
  IN IF flyoutOpenStatusBodyClass \notin f.body
     THEN [f EXCEPT !.body = @ \cup noScrollClasses]
     ELSE [f EXCEPT !.body = @ \ {flyoutOpenStatusBodyClass,
                                   flyoutOpenStatusBodyClassOverflow}]

\* readme.md lines 659-685
openOf(f, i) ==
  IF openStatusClass \notin f.inst[i].menu /\ animationOpenStatusClass \notin f.inst[i].menu
  THEN [toggleNoScrollOf(f) EXCEPT
          !.inst[i].menu = @ \cup {openStatusClass, animationOpenStatusClass},
          !.inst[i].toggle = @ \cup {openStatusClass, animationOpenStatusClass},
          !.inst[i].ariaExpanded = "true",
          !.body = @ \cup {"flyout-opening"},
          !.timers = Append(@, [kind |-> "opened", of |-> i])]
  ELSE f

\* readme.md lines 712-735
closeOf(f, i) ==
  IF openStatusClass \in f.inst[i].menu /\ animationCloseStatusClass \notin f.inst[i].menu
  THEN LET f1 == [f EXCEPT
                    !.inst[i].menu = @ \cup {animationCloseStatusClass},
                    !.inst[i].toggle = (@ \cup {animationCloseStatusClass}) \ {openStatusClass},
                    !.inst[i].ariaExpanded = "false",
                    !.body = @ \cup {"flyout-closing"}]
       IN [toggleNoScrollOf(f1) EXCEPT
             !.timers = Append(@, [kind |-> "closed", of |-> i])]
  ELSE f

\* readme.md lines 634-645: madj2k-flyoutmenu-close is dispatched on the
\* other toggles, where no instance listens (bindEvents, line 555, listens
\* on the document and the event does not bubble): the others stay as
\* they are
toggleOf(f, i) ==
  IF openStatusClass \in f.inst[i].toggle THEN closeOf(f, i) ELSE openOf(f, i)

\* readme.md lines 679-684 and 729-734: the timer callbacks
timerOf(f, tm) ==
  IF tm.kind = "opened"
  THEN [f EXCEPT !.inst[tm.of].menu = @ \ {animationOpenStatusClass},
                 !.inst[tm.of].toggle = @ \ {animationOpenStatusClass},
                 !.body = @ \ {"flyout-opening"}]
  ELSE [f EXCEPT !.inst[tm.of].menu = @ \ {openStatusClass, animationCloseStatusClass},
                 !.inst[tm.of].toggle = @ \ {animationCloseStatusClass},
                 !.body = @ \ {"flyout-closing"}]

FlyoutsInit ==
  /\ MenusIdle
  /\ banner = NoBanner /\ betterResize = NoBetterResize
  /\ slider = NoSlider /\ overlay = NoOverlay /\ scrolling = NoScrolling
  /\ \E overflows \in BOOLEAN :
        flyouts = [used |-> TRUE, overflowing |-> overflows, body |-> {},
                   inst |-> [i \in Flyouts |->
                               [menu |-> {}, toggle |-> {}, ariaExpanded |-> "false"]],
                   timers |-> <<>>]

FlyoutsToggle ==
  /\ \E i \in Flyouts : flyouts' = toggleOf(flyouts, i)
  /\ UNCHANGED <<menuVars, banner, betterResize, slider, overlay, scrolling>>

FlyoutsOpen ==
  /\ \E i \in Flyouts : flyouts' = openOf(flyouts, i)
  /\ UNCHANGED <<menuVars, banner, betterResize, slider, overlay, scrolling>>

FlyoutsClose ==
  /\ \E i \in Flyouts : flyouts' = closeOf(flyouts, i)
  /\ UNCHANGED <<menuVars, banner, betterResize, slider, overlay, scrolling>>

\* the animationDuration timers fire in the order they were set
FlyoutsTimer ==
  /\ flyouts.timers # <<>>
  /\ flyouts' = timerOf([flyouts EXCEPT !.timers = Tail(@)], Head(flyouts.timers))
  /\ UNCHANGED <<menuVars, banner, betterResize, slider, overlay, scrolling>>

FlyoutsNext ==
  \/ FlyoutsToggle
  \/ FlyoutsOpen
  \/ FlyoutsClose
  \/ FlyoutsTimer

FlyoutsSpec == FlyoutsInit /\ [][FlyoutsNext]_vars

\* C36: the body carries the flyout-open class exactly when at least one
\* flyout toggle carries the open class.
C36_LockedWhileAnyOpen ==
  flyouts.used =>
    (flyoutOpenStatusBodyClass \in flyouts.body
       <=> \E i \in Flyouts : openStatusClass \in flyouts.inst[i].toggle)

====
